---- MODULE Spec2Model ----
(***************************************************************************)
(* rust_ofp: the OpenFlow 1.0 wire codec (openflow0x01.rs, ofp_header.rs,  *)
(* packet.rs) and the per-connection controller loop (ofp_controller.rs)   *)
(* with the learning switch as its application (learning_switch.rs).       *)
(*                                                                         *)
(* Representation of the Rust values:                                      *)
(*   u8, u16, usize      a natural number                                  *)
(*   u32, i32, u64, i64  the tuple of their big-endian bytes (4 or 8), so  *)
(*                       that every value of the width is representable    *)
(*   Vec<u8>, [u8; n]    a tuple of bytes                                  *)
(*   Option<T>           <<>> for None, <<v>> for Some(v)                  *)
(*   enum / struct       a record; a sum type carries a string tag         *)
(*   a panic             a result record with ok = FALSE                   *)
(* Writes on the TcpStream are taken to succeed.                           *)
(***************************************************************************)
EXTENDS Integers, Sequences, FiniteSets, TLC

VARIABLES pc, switch_id, known_hosts, buf, inp, shorts, errs, nmsg, hist,
          cpc, cmsg, cxid, cwire, cparsed

vars == <<pc, switch_id, known_hosts, buf, inp, shorts, errs, nmsg, hist,
          cpc, cmsg, cxid, cwire, cparsed>>

connVars == <<pc, switch_id, known_hosts, buf, inp, shorts, errs, nmsg, hist>>
codecVars == <<cpc, cmsg, cxid, cwire, cparsed>>

None == <<>>
Some(v) == <<v>>
IsSome(o) == Len(o) = 1
Unwrap(o) == o[1]
UnwrapOr(o, d) == IF Len(o) = 1 THEN o[1] ELSE d

(***************************************************************************)
(* Bytes and bits                                                          *)
(***************************************************************************)
Pow2(n) == 2 ^ n

\* the function f on 1..n as a sequence
SeqOf(f) == <<>> \o f

\* the byte at 0-based offset p - 1 of b, and 0 past its end
Byte(b, i) == IF i >= 1 /\ i <= Len(b) THEN b[i] ELSE 0

\* n bytes of b from 0-based offset p
Slice(b, p, n) == SeqOf([i \in 1..n |-> Byte(b, p + i)])

\* the bytes of b from 0-based offset p to its end
Tail_from(b, p) ==
    IF p >= Len(b) THEN <<>> ELSE SeqOf([i \in 1..(Len(b) - p) |-> b[p + i]])

write_u8(n) == <<n % 256>>
write_u16(n) == <<(n \div 256) % 256, n % 256>>
write_u32(n) == <<(n \div 16777216) % 256, (n \div 65536) % 256, (n \div 256) % 256, n % 256>>
read_u16(b, p) == Byte(b, p + 1) * 256 + Byte(b, p + 2)
Zeros(n) == SeqOf([i \in 1..n |-> 0])
U64Zero == Zeros(8)
AllOnes32 == <<255, 255, 255, 255>>

RECURSIVE BitOr(_, _)
BitOr(a, b) ==
    IF a = 0 THEN b
    ELSE IF b = 0 THEN a
    ELSE (IF a % 2 = 1 \/ b % 2 = 1 THEN 1 ELSE 0) + 2 * BitOr(a \div 2, b \div 2)

test_bit(b, x) == (x \div Pow2(b)) % 2 = 1

bit(b, x, toggle) ==
    IF toggle THEN BitOr(x, Pow2(b))
    ELSE IF test_bit(b, x) THEN x - Pow2(b) ELSE x

(***************************************************************************)
(* ofp_header.rs                                                           *)
(***************************************************************************)
OfpHeader_size == 8

OfpHeader_new(version, typ, length, xid) ==
    [version |-> version, typ |-> typ, length |-> length, xid |-> xid]

OfpHeader_marshal(h) ==
    write_u8(h.version) \o write_u8(h.typ) \o write_u16(h.length) \o h.xid

OfpHeader_parse(b) ==
    [version |-> Byte(b, 1), typ |-> Byte(b, 2), length |-> read_u16(b, 2),
     xid |-> Slice(b, 4, 4)]

\* MsgCode, numbered as the enum declares it
MsgCodeNames ==
    <<"Hello", "Error", "EchoReq", "EchoResp", "Vendor", "FeaturesReq", "FeaturesResp",
      "GetConfigReq", "GetConfigResp", "SetConfig", "PacketIn", "FlowRemoved",
      "PortStatus", "PacketOut", "FlowMod", "PortMod", "StatsReq", "StatsResp",
      "BarrierReq", "BarrierResp", "QueueGetConfigReq", "QueueGetConfigResp">>

MsgCodeOf(name) == (CHOOSE i \in 1..Len(MsgCodeNames) : MsgCodeNames[i] = name) - 1

\* type_code transmutes the byte: a byte that is no discriminant of MsgCode is
\* undefined behaviour, which may take any arm of a match on the result
type_code(h) ==
    IF h.typ < Len(MsgCodeNames) THEN {MsgCodeNames[h.typ + 1]}
    ELSE {MsgCodeNames[i] : i \in 1..Len(MsgCodeNames)}

(***************************************************************************)
(* openflow0x01.rs: Wildcards and Pattern                                  *)
(***************************************************************************)
Mask(value, mask) == [value |-> value, mask |-> mask]

Pattern_match_all ==
    [dl_src |-> None, dl_dst |-> None, dl_typ |-> None, dl_vlan |-> None,
     dl_vlan_pcp |-> None, nw_src |-> None, nw_dst |-> None, nw_proto |-> None,
     nw_tos |-> None, tp_src |-> None, tp_dst |-> None, in_port |-> None]

Wildcards_set_nw_mask(f, offset, v) == BitOr(f, (v % 64) * Pow2(offset))

Wildcards_get_nw_mask(f, offset) == (f \div Pow2(offset)) % 64

\* a faulty variant of mask_bits: an absent address counts as fully given
Wildcards_mask_bits_absent_zero(x) ==
    IF x = None THEN 0
    ELSE IF Unwrap(x).mask = None THEN 0 ELSE Unwrap(Unwrap(x).mask)

Wildcards_mask_bits(x) ==
    IF x = None THEN 32
    ELSE IF Unwrap(x).mask = None THEN 0 ELSE Unwrap(Unwrap(x).mask)

\* the 32-bit word Wildcards::marshal writes, as a number (it is below 2^22)
Wildcards_word(w) ==
    LET r0 == bit(0, 0, w.in_port)
        r1 == bit(1, r0, w.dl_vlan)
        r2 == bit(2, r1, w.dl_src)
        r3 == bit(3, r2, w.dl_dst)
        r4 == bit(4, r3, w.dl_type)
        r5 == bit(5, r4, w.nw_proto)
        r6 == bit(6, r5, w.tp_src)
        r7 == bit(7, r6, w.tp_dst)
        r8 == Wildcards_set_nw_mask(r7, 8, w.nw_src)
        r9 == Wildcards_set_nw_mask(r8, 14, w.nw_dst)
        r10 == bit(20, r9, w.dl_vlan_pcp)
    IN  bit(21, r10, w.nw_tos)

Wildcards_marshal(w) == write_u32(Wildcards_word(w))

\* bits is the low 24 bits of the word read; no field lies above bit 21
Wildcards_parse(bits) ==
    [in_port |-> test_bit(0, bits), dl_vlan |-> test_bit(1, bits),
     dl_src |-> test_bit(2, bits), dl_dst |-> test_bit(3, bits),
     dl_type |-> test_bit(4, bits), nw_proto |-> test_bit(5, bits),
     tp_src |-> test_bit(6, bits), tp_dst |-> test_bit(7, bits),
     nw_src |-> Wildcards_get_nw_mask(bits, 8),
     nw_dst |-> Wildcards_get_nw_mask(bits, 14),
     dl_vlan_pcp |-> test_bit(20, bits), nw_tos |-> test_bit(21, bits)]

Pattern_wildcards_of_pattern(m) ==
    [in_port |-> m.in_port = None, dl_vlan |-> m.dl_vlan = None,
     dl_src |-> m.dl_src = None, dl_dst |-> m.dl_dst = None,
     dl_type |-> m.dl_typ = None, nw_proto |-> m.nw_proto = None,
     tp_src |-> m.tp_src = None, tp_dst |-> m.tp_dst = None,
     nw_src |-> Wildcards_mask_bits(m.nw_src),
     nw_dst |-> Wildcards_mask_bits(m.nw_dst),
     dl_vlan_pcp |-> m.dl_vlan_pcp = None, nw_tos |-> m.nw_tos = None]

Pattern_size_of == 40

Pattern_marshal(p) ==
    Wildcards_marshal(Pattern_wildcards_of_pattern(p))
    \o write_u16(UnwrapOr(p.in_port, 0))
    \o UnwrapOr(p.dl_src, Zeros(6))
    \o UnwrapOr(p.dl_dst, Zeros(6))
    \o write_u16(IF p.dl_vlan = None THEN 65535
                 ELSE IF Unwrap(p.dl_vlan) = None THEN 65535
                 ELSE Unwrap(Unwrap(p.dl_vlan)))
    \o write_u8(UnwrapOr(p.dl_vlan_pcp, 0))
    \o write_u8(0)
    \o write_u16(UnwrapOr(p.dl_typ, 0))
    \o write_u8(UnwrapOr(p.nw_tos, 0))
    \o write_u16(0)
    \o write_u8(UnwrapOr(p.nw_proto, 0))
    \o UnwrapOr(p.nw_src, Mask(Zeros(4), None)).value
    \o UnwrapOr(p.nw_dst, Mask(Zeros(4), None)).value
    \o write_u16(UnwrapOr(p.tp_src, 0))
    \o write_u16(UnwrapOr(p.tp_dst, 0))

(***************************************************************************)
(* openflow0x01.rs: PseudoPort and Action                                  *)
(***************************************************************************)
OFPPMax == 65280
OFPPInPort == 65528
OFPPTable == 65529
OFPPNormal == 65530
OFPPFlood == 65531
OFPPAll == 65532
OFPPController == 65533
OFPPLocal == 65534
OFPPNone == 65535

PP(kind, n) == [pp |-> kind, n |-> n]
PhysicalPort(p) == PP("PhysicalPort", p)
Controller(n) == PP("Controller", n)
NoPort == PP("NoPort", 0)

\* [ok |-> FALSE] is the panic "Unsupported port number"
PseudoPort_make(p, len) ==
    IF p = OFPPInPort THEN [ok |-> TRUE, val |-> PP("InPort", 0)]
    ELSE IF p = OFPPTable THEN [ok |-> TRUE, val |-> PP("Table", 0)]
    ELSE IF p = OFPPNormal THEN [ok |-> TRUE, val |-> PP("Normal", 0)]
    ELSE IF p = OFPPFlood THEN [ok |-> TRUE, val |-> PP("Flood", 0)]
    ELSE IF p = OFPPAll THEN [ok |-> TRUE, val |-> PP("AllPorts", 0)]
    ELSE IF p = OFPPController THEN [ok |-> TRUE, val |-> Controller(len)]
    ELSE IF p = OFPPLocal THEN [ok |-> TRUE, val |-> PP("Local", 0)]
    ELSE IF p <= OFPPMax THEN [ok |-> TRUE, val |-> PhysicalPort(p)]
    ELSE [ok |-> FALSE, val |-> NoPort]

PseudoPort_of_int(p) ==
    IF p = OFPPNone THEN [ok |-> TRUE, val |-> None]
    ELSE LET r == PseudoPort_make(p, 0) IN [ok |-> r.ok, val |-> Some(r.val)]

PseudoPort_marshal(pp) ==
    write_u16(CASE pp.pp = "PhysicalPort" -> pp.n
                [] pp.pp = "InPort" -> OFPPInPort
                [] pp.pp = "Table" -> OFPPTable
                [] pp.pp = "Normal" -> OFPPNormal
                [] pp.pp = "Flood" -> OFPPFlood
                [] pp.pp = "AllPorts" -> OFPPAll
                [] pp.pp = "Controller" -> OFPPController
                [] pp.pp = "Local" -> OFPPLocal)

\* an Action: act names the variant, port is its PseudoPort (NoPort when it
\* has none) and val the tuple of its other fields
Act(a, port, val) == [act |-> a, port |-> port, val |-> val]
Output(pp) == Act("Output", pp, <<>>)
SetDlVlan(o) == Act("SetDlVlan", NoPort, o)
SetDlVlanPcp(n) == Act("SetDlVlanPcp", NoPort, <<n>>)
SetDlSrc(mac) == Act("SetDlSrc", NoPort, mac)
SetDlDst(mac) == Act("SetDlDst", NoPort, mac)
SetNwSrc(addr) == Act("SetNwSrc", NoPort, addr)
SetNwDst(addr) == Act("SetNwDst", NoPort, addr)
SetNwTos(n) == Act("SetNwTos", NoPort, <<n>>)
SetTpSrc(pt) == Act("SetTpSrc", NoPort, <<pt>>)
SetTpDst(pt) == Act("SetTpDst", NoPort, <<pt>>)
Enqueue(pp, qid) == Act("Enqueue", pp, qid)

OfpActionHeader_size == 8

Action_type_code(a) ==
    CASE a.act = "Output" -> 0
      [] a.act = "SetDlVlan" /\ a.val = None -> 3
      [] a.act = "SetDlVlan" /\ a.val # None -> 1
      [] a.act = "SetDlVlanPcp" -> 2
      [] a.act = "SetDlSrc" -> 4
      [] a.act = "SetDlDst" -> 5
      [] a.act = "SetNwSrc" -> 6
      [] a.act = "SetNwDst" -> 7
      [] a.act = "SetNwTos" -> 8
      [] a.act = "SetTpSrc" -> 9
      [] a.act = "SetTpDst" -> 10
      [] a.act = "Enqueue" -> 11

Action_size_of(a) ==
    OfpActionHeader_size +
    (CASE a.act \in {"SetDlSrc", "SetDlDst", "Enqueue"} -> 12
       [] OTHER -> 4)

RECURSIVE Action_size_of_sequence(_)
Action_size_of_sequence(actions) ==
    IF actions = <<>> THEN 0
    ELSE Action_size_of(Head(actions)) + Action_size_of_sequence(Tail(actions))

IsToController(a) == a.act = "Output" /\ a.port.pp = "Controller"
IsNotToController(a) == ~IsToController(a)

\* a faulty variant of move_controller_last: the list is left as it is
Action_move_controller_last_in_place(acts) == acts

Action_move_controller_last(acts) ==
    SelectSeq(acts, IsNotToController) \o SelectSeq(acts, IsToController)

Action_marshal(a) ==
    write_u16(Action_type_code(a)) \o write_u16(Action_size_of(a)) \o write_u32(0)
    \o (CASE a.act = "Output" ->
               PseudoPort_marshal(a.port)
               \o write_u16(IF a.port.pp = "Controller" THEN a.port.n % 65536 ELSE 0)
          [] a.act = "SetDlVlan" /\ a.val = None -> write_u32(65535)
          [] a.act = "SetDlVlan" /\ a.val # None -> write_u16(a.val[1]) \o write_u16(0)
          [] a.act \in {"SetDlVlanPcp", "SetNwTos"} -> write_u8(a.val[1]) \o Zeros(3)
          [] a.act \in {"SetDlSrc", "SetDlDst"} -> a.val \o Zeros(6)
          [] a.act \in {"SetNwSrc", "SetNwDst"} -> a.val
          [] a.act \in {"SetTpSrc", "SetTpDst"} -> write_u16(a.val[1]) \o write_u16(0)
          [] a.act = "Enqueue" -> PseudoPort_marshal(a.port) \o Zeros(6) \o a.val)

RECURSIVE Action_marshal_sequence(_)
Action_marshal_sequence(acts) ==
    IF acts = <<>> THEN <<>>
    ELSE Action_marshal(Head(acts)) \o Action_marshal_sequence(Tail(acts))

(***************************************************************************)
(* openflow0x01.rs: message bodies                                         *)
(***************************************************************************)
Permanent == [t |-> "Permanent", d |-> 0]
ExpiresAfter(d) == [t |-> "ExpiresAfter", d |-> d]

Timeout_of_int(tm) == IF tm = 0 THEN Permanent ELSE ExpiresAfter(tm)

Timeout_to_int(tm) == IF tm.t = "Permanent" THEN 0 ELSE tm.d

Buffered(id, data) == [kind |-> "Buffered", id |-> id, data |-> data]
NotBuffered(data) == [kind |-> "NotBuffered", id |-> AllOnes32, data |-> data]

Payload_size_of(payload) == Len(payload.data)

Payload_marshal(payload) == payload.data

\* a signed 32-bit buffer id read from the wire: -1 is None
BufIdOfWire(b4) == IF b4 = AllOnes32 THEN None ELSE Some(b4)

PayloadOf(buf_id, data) ==
    IF buf_id = None THEN NotBuffered(data) ELSE Buffered(Unwrap(buf_id), data)

OfpFlowMod_size == 24

FlowMod_flags_to_int(check_overlap, notify_when_removed) ==
    BitOr(IF check_overlap THEN 2 ELSE 0, IF notify_when_removed THEN 1 ELSE 0)

FlowMod_check_overlap_of_flags(flags) == test_bit(1, flags)

FlowMod_notify_when_removed_of_flags(flags) == test_bit(0, flags)

FlowMod_size_of(msg) ==
    Pattern_size_of + OfpFlowMod_size + Action_size_of_sequence(msg.actions)

\* a faulty variant of the OFPPTable check: only the first action is looked at
HasOutputTable_first_only(acts) ==
    acts # <<>> /\ acts[1].act = "Output" /\ acts[1].port.pp = "Table"

HasOutputTable(acts) ==
    \E i \in 1..Len(acts) : acts[i].act = "Output" /\ acts[i].port.pp = "Table"

\* ok = FALSE is the panic "OFPPTable not allowed in installed flow."
FlowMod_marshal(fm) ==
    [ok |-> ~HasOutputTable(fm.actions),
     bytes |->
        Pattern_marshal(fm.pattern)
        \o fm.cookie
        \o write_u16(fm.command)
        \o write_u16(Timeout_to_int(fm.idle_timeout))
        \o write_u16(Timeout_to_int(fm.hard_timeout))
        \o write_u16(fm.priority)
        \o UnwrapOr(fm.apply_to_packet, AllOnes32)
        \o (IF fm.out_port = None THEN write_u16(OFPPNone)
            ELSE PseudoPort_marshal(Unwrap(fm.out_port)))
        \o write_u16(FlowMod_flags_to_int(fm.check_overlap, fm.notify_when_removed))
        \o Action_marshal_sequence(Action_move_controller_last(fm.actions))]

OfpPacketIn_size == 10

PacketIn_size_of(pi) == OfpPacketIn_size + Payload_size_of(pi.input_payload)

OfpPacketOut_size == 8

PacketOut_size_of(po) ==
    OfpPacketOut_size + Action_size_of_sequence(po.apply_actions)
    + Payload_size_of(po.output_payload)

PacketOut_marshal(po) ==
    (IF po.output_payload.kind = "Buffered" THEN po.output_payload.id ELSE AllOnes32)
    \o (IF po.port_id = None THEN write_u16(OFPPNone)
        ELSE PseudoPort_marshal(PhysicalPort(Unwrap(po.port_id))))
    \o write_u16(Action_size_of_sequence(po.apply_actions))
    \o Action_marshal_sequence(Action_move_controller_last(po.apply_actions))
    \o Payload_marshal(po.output_payload)

OfpFlowRemoved_size == 40

FlowRemoved_size_of(f) == Pattern_size_of + OfpFlowRemoved_size

FlowRemoved_marshal(f) ==
    Pattern_marshal(f.pattern)
    \o f.cookie
    \o write_u16(f.priority)
    \o write_u8(f.reason)
    \o write_u8(0)
    \o f.duration_sec
    \o f.duration_nsec
    \o write_u16(Timeout_to_int(f.idle_timeout))
    \o f.packet_count
    \o f.byte_count

OfpSwitchFeatures_size == 24
OfpPhyPort_size == 48
PortReason_size == 1

\* size_of::<PortReason>() + size_of::<OfpPhyPort>()
PortStatus_size_of == PortReason_size + OfpPhyPort_size

OfpErrorMsg_size == 4

Error_size_of(err) == OfpErrorMsg_size + Len(err.data)

(***************************************************************************)
(* openflow0x01.rs: the Message envelope                                   *)
(***************************************************************************)
Msg(tag, body) == [tag |-> tag, body |-> body]
Hello == Msg("Hello", <<>>)
FeaturesReq == Msg("FeaturesReq", <<>>)
BarrierRequest == Msg("BarrierRequest", <<>>)
BarrierReply == Msg("BarrierReply", <<>>)
EchoRequest(bytes) == Msg("EchoRequest", bytes)
EchoReply(bytes) == Msg("EchoReply", bytes)

Message_msg_code_of_message(msg) ==
    CASE msg.tag = "Hello" -> MsgCodeOf("Hello")
      [] msg.tag = "Error" -> MsgCodeOf("Error")
      [] msg.tag = "EchoRequest" -> MsgCodeOf("EchoReq")
      [] msg.tag = "EchoReply" -> MsgCodeOf("EchoResp")
      [] msg.tag = "FeaturesReq" -> MsgCodeOf("FeaturesReq")
      [] msg.tag = "FeaturesReply" -> MsgCodeOf("FeaturesResp")
      [] msg.tag = "FlowMod" -> MsgCodeOf("FlowMod")
      [] msg.tag = "PacketIn" -> MsgCodeOf("PacketIn")
      [] msg.tag = "FlowRemoved" -> MsgCodeOf("FlowRemoved")
      [] msg.tag = "PortStatus" -> MsgCodeOf("PortStatus")
      [] msg.tag = "PacketOut" -> MsgCodeOf("PacketOut")
      [] msg.tag = "BarrierRequest" -> MsgCodeOf("BarrierReq")
      [] msg.tag = "BarrierReply" -> MsgCodeOf("BarrierResp")

\* the body bytes; ok = FALSE when marshalling the body panics
Message_marshal_body(msg) ==
    CASE msg.tag \in {"EchoRequest", "EchoReply"} -> [ok |-> TRUE, bytes |-> msg.body]
      [] msg.tag = "FlowMod" -> FlowMod_marshal(msg.body)
      [] msg.tag = "FlowRemoved" -> [ok |-> TRUE, bytes |-> FlowRemoved_marshal(msg.body)]
      [] msg.tag = "PacketOut" -> [ok |-> TRUE, bytes |-> PacketOut_marshal(msg.body)]
      [] OTHER -> [ok |-> TRUE, bytes |-> <<>>]

\* a faulty variant of size_of: the body is not counted
Message_size_of_header_only(msg) == OfpHeader_size

Message_size_of(msg) ==
    CASE msg.tag \in {"Hello", "FeaturesReq", "BarrierRequest", "BarrierReply"} ->
             OfpHeader_size
      [] msg.tag = "Error" -> Error_size_of(msg.body)
      [] msg.tag \in {"EchoRequest", "EchoReply"} -> OfpHeader_size + Len(msg.body)
      [] msg.tag = "FlowMod" -> OfpHeader_size + FlowMod_size_of(msg.body)
      [] msg.tag = "PacketIn" -> OfpHeader_size + PacketIn_size_of(msg.body)
      [] msg.tag = "FlowRemoved" -> OfpHeader_size + FlowRemoved_size_of(msg.body)
      [] msg.tag = "PortStatus" -> OfpHeader_size + PortStatus_size_of
      [] msg.tag = "PacketOut" -> OfpHeader_size + PacketOut_size_of(msg.body)
      [] OTHER -> 0

\* a faulty variant of header_of: the xid is not taken over
Message_header_of_zero_xid(xid, msg) ==
    OfpHeader_new(1, Message_msg_code_of_message(msg), Message_size_of(msg) % 65536,
                  Zeros(4))

Message_header_of(xid, msg) ==
    OfpHeader_new(1, Message_msg_code_of_message(msg), Message_size_of(msg) % 65536, xid)

Message_marshal(xid, msg) ==
    LET body == Message_marshal_body(msg)
    IN  [ok |-> body.ok,
         bytes |-> OfpHeader_marshal(Message_header_of(xid, msg)) \o body.bytes]

(***************************************************************************)
(* Parsing.  A Cursor<Vec<u8>> is the pair of its vector b and its 0-based *)
(* position; a read of n bytes at position p panics (unwrap of an          *)
(* UnexpectedEof) when p + n exceeds Len(b), while consume(n) only adds n  *)
(* to the position.  rd is the position after the last read performed:     *)
(* positions only grow, so no read has panicked iff rd <= Len(b).          *)
(***************************************************************************)
\* the bytes each step of Pattern::parse moves the cursor by: a wildcarded
\* field is not read and its bytes are not skipped; steps 6 and 10 are the
\* two consume calls
Pattern_parse_steps(w) ==
    <<IF w.in_port THEN 0 ELSE 2,
      IF w.dl_src THEN 0 ELSE 6,
      IF w.dl_dst THEN 0 ELSE 6,
      IF w.dl_vlan THEN 0 ELSE 2,
      IF w.dl_vlan_pcp THEN 0 ELSE 1,
      1,
      IF w.dl_type THEN 0 ELSE 2,
      IF w.nw_tos THEN 0 ELSE 1,
      IF w.nw_proto THEN 0 ELSE 1,
      2,
      IF w.nw_src >= 32 THEN 0 ELSE 4,
      IF w.nw_dst >= 32 THEN 0 ELSE 4,
      IF w.tp_src THEN 0 ELSE 2,
      IF w.tp_dst THEN 0 ELSE 2>>

RECURSIVE SumTo(_, _)
SumTo(s, n) == IF n = 0 THEN 0 ELSE s[n] + SumTo(s, n - 1)

\* the steps that read (the others only move the cursor)
Pattern_parse_reads(s) == {i \in (1..14) \ {6, 10} : s[i] > 0}

\* o[i] is the cursor before step i and o[15] the cursor at the end
Pattern_parse_fields(b, w, s, o) ==
    [ok |-> \A i \in Pattern_parse_reads(s) : o[i + 1] <= Len(b),
     pos |-> o[15],
     val |->
       [dl_src |-> IF w.dl_src THEN None ELSE Some(Slice(b, o[2], 6)),
        dl_dst |-> IF w.dl_dst THEN None ELSE Some(Slice(b, o[3], 6)),
        dl_typ |-> IF w.dl_type THEN None ELSE Some(read_u16(b, o[7])),
        dl_vlan |-> IF w.dl_vlan THEN None
                    ELSE IF read_u16(b, o[4]) = 4095 THEN Some(None)
                    ELSE Some(Some(read_u16(b, o[4]))),
        dl_vlan_pcp |-> IF w.dl_vlan_pcp THEN None ELSE Some(Byte(b, o[5] + 1)),
        nw_src |-> IF w.nw_src >= 32 THEN None
                   ELSE IF w.nw_src = 0 THEN Some(Mask(Slice(b, o[11], 4), None))
                   ELSE Some(Mask(Slice(b, o[11], 4), Some(w.nw_src))),
        nw_dst |-> IF w.nw_dst >= 32 THEN None
                   ELSE IF w.nw_dst = 0 THEN Some(Mask(Slice(b, o[12], 4), None))
                   ELSE Some(Mask(Slice(b, o[12], 4), Some(w.nw_src))),
        nw_proto |-> IF w.nw_proto THEN None ELSE Some(Byte(b, o[9] + 1)),
        nw_tos |-> IF w.nw_tos THEN None ELSE Some(Byte(b, o[8] + 1)),
        tp_src |-> IF w.tp_src THEN None ELSE Some(read_u16(b, o[13])),
        tp_dst |-> IF w.tp_dst THEN None ELSE Some(read_u16(b, o[14])),
        in_port |-> IF w.in_port THEN None ELSE Some(read_u16(b, o[1]))]]

Pattern_parse_from(b, p0, w, s) ==
    IF p0 + 4 > Len(b) THEN [ok |-> FALSE, pos |-> p0, val |-> Pattern_match_all]
    ELSE Pattern_parse_fields(b, w, s, [i \in 1..15 |-> p0 + 4 + SumTo(s, i - 1)])

\* Pattern::parse with the cursor at position p0; pos is the cursor after it
Pattern_parse(b, p0) ==
    LET Fields(w) == Pattern_parse_from(b, p0, w, Pattern_parse_steps(w))
    IN  Fields(Wildcards_parse(read_u16(b, p0 + 2) + 65536 * Byte(b, p0 + 2)))

\* one action at position p: the type code and the length are read, then the
\* variant's body.  ok = FALSE is a panic: a read past the end, an
\* unrecognized OfpActionType or an unsupported port number.
Action__parse(b, p) ==
    LET action_code == read_u16(b, p)
        q == p + 4
        port == PseudoPort_make(read_u16(b, q), read_u16(b, q + 2))
        eport == PseudoPort_make(read_u16(b, q), 0)
    IN  CASE action_code = 0 ->
               [ok |-> q + 4 <= Len(b) /\ port.ok, pos |-> q + 4, val |-> Output(port.val)]
          [] action_code = 1 ->
               [ok |-> q + 2 <= Len(b), pos |-> q + 4,
                val |-> IF read_u16(b, q) = 65535 THEN SetDlVlan(None)
                        ELSE SetDlVlan(Some(read_u16(b, q)))]
          [] action_code = 2 ->
               [ok |-> q + 1 <= Len(b), pos |-> q + 4, val |-> SetDlVlanPcp(Byte(b, q + 1))]
          [] action_code = 3 ->
               [ok |-> q <= Len(b), pos |-> q + 4, val |-> SetDlVlan(None)]
          [] action_code = 4 ->
               [ok |-> q + 6 <= Len(b), pos |-> q + 12, val |-> SetDlSrc(Slice(b, q, 6))]
          [] action_code = 5 ->
               [ok |-> q + 6 <= Len(b), pos |-> q + 12, val |-> SetDlDst(Slice(b, q, 6))]
          [] action_code = 6 ->
               [ok |-> q + 4 <= Len(b), pos |-> q + 4, val |-> SetNwSrc(Slice(b, q, 4))]
          [] action_code = 7 ->
               [ok |-> q + 4 <= Len(b), pos |-> q + 4, val |-> SetNwDst(Slice(b, q, 4))]
          [] action_code = 8 ->
               [ok |-> q + 1 <= Len(b), pos |-> q + 4, val |-> SetNwTos(Byte(b, q + 1))]
          [] action_code = 9 ->
               [ok |-> q + 2 <= Len(b), pos |-> q + 4, val |-> SetTpSrc(read_u16(b, q))]
          [] action_code = 10 ->
               [ok |-> q + 2 <= Len(b), pos |-> q + 4, val |-> SetTpDst(read_u16(b, q))]
          [] action_code = 11 ->
               [ok |-> q + 12 <= Len(b) /\ eport.ok, pos |-> q + 12,
                val |-> Enqueue(eport.val, Slice(b, q + 8, 4))]
          [] OTHER -> [ok |-> FALSE, pos |-> q, val |-> SetDlVlan(None)]

\* one call of parse_sequence on a non-empty vector: st is the cursor, the
\* actions parsed so far and whether Action::_parse has panicked
Action_parse_step(b, st) ==
    LET Got(r) == IF r.ok THEN [ok |-> TRUE, pos |-> r.pos, val |-> Append(st.val, r.val)]
                  ELSE [ok |-> FALSE, pos |-> st.pos, val |-> st.val]
    IN  Got(Action__parse(b, st.pos))

\* n calls in a row, stopping at a panic
RECURSIVE Action_parse_loop(_, _, _)
Action_parse_loop(b, st, n) ==
    IF n = 0 \/ ~st.ok THEN st
    ELSE IF n = 1 THEN Action_parse_step(b, st)
    ELSE Action_parse_loop(b, Action_parse_loop(b, st, n \div 2), n - n \div 2)

\* the emptiness test is on the cursor's whole vector (get_ref), not on what
\* is left of it, so on a non-empty vector the recursion goes on until
\* Action::_parse panics; every call moves the cursor by 8 bytes or more and
\* reads within the vector, so there are at most Len(b) \div 8 + 1 of them
Action_parse_sequence(b, p) ==
    IF Len(b) = 0 THEN [ok |-> TRUE, val |-> <<>>]
    ELSE [ok |-> FALSE,
          val |-> Action_parse_loop(b, [ok |-> TRUE, pos |-> p, val |-> <<>>],
                                    Len(b) \div 8 + 2).val]

FlowMod_parse_body(b, pat, p) ==
    LET Rest(out_port, flags, actions) ==
          [ok |-> pat.ok /\ p + 24 <= Len(b) /\ out_port.ok /\ actions.ok,
           val |->
             [command |-> read_u16(b, p + 8),
              pattern |-> pat.val,
              priority |-> read_u16(b, p + 14),
              actions |-> actions.val,
              cookie |-> Slice(b, p, 8),
              idle_timeout |-> Timeout_of_int(read_u16(b, p + 10)),
              hard_timeout |-> Timeout_of_int(read_u16(b, p + 12)),
              notify_when_removed |-> FlowMod_notify_when_removed_of_flags(flags),
              apply_to_packet |-> BufIdOfWire(Slice(b, p + 16, 4)),
              out_port |-> out_port.val,
              check_overlap |-> FlowMod_check_overlap_of_flags(flags)]]
    IN  Rest(PseudoPort_of_int(read_u16(b, p + 20)), read_u16(b, p + 22),
             Action_parse_sequence(b, p + 24))

FlowMod_parse(b) ==
    LET After(pat) == IF pat.ok THEN FlowMod_parse_body(b, pat, pat.pos)
                      ELSE [ok |-> FALSE, val |-> <<>>]
    IN  After(Pattern_parse(b, 0))

\* the payload is the cursor's whole vector (into_inner)
PacketIn_parse(b) ==
    [ok |-> 9 <= Len(b),
     val |-> [input_payload |-> PayloadOf(BufIdOfWire(Slice(b, 0, 4)), b),
              total_len |-> read_u16(b, 4),
              port |-> read_u16(b, 6),
              reason |-> Byte(b, 9)]]

PacketOut_parse(b) ==
    LET in_port == read_u16(b, 4)
        actions_len == read_u16(b, 6)
        actions == Action_parse_sequence(Slice(b, 8, actions_len), 0)
    IN  [ok |-> 8 + actions_len <= Len(b) /\ actions.ok,
         val |-> [output_payload |-> PayloadOf(BufIdOfWire(Slice(b, 0, 4)), b),
                  port_id |-> IF in_port = OFPPNone THEN None ELSE Some(in_port),
                  apply_actions |-> actions.val]]

FlowRemoved_parse_body(b, pat, p) ==
    [ok |-> pat.ok /\ p + 40 <= Len(b),
     val |-> [pattern |-> pat.val,
              cookie |-> Slice(b, p, 8),
              priority |-> read_u16(b, p + 8),
              reason |-> Byte(b, p + 11),
              duration_sec |-> Slice(b, p + 12, 4),
              duration_nsec |-> Slice(b, p + 16, 4),
              idle_timeout |-> Timeout_of_int(read_u16(b, p + 20)),
              packet_count |-> Slice(b, p + 24, 8),
              byte_count |-> Slice(b, p + 32, 8)]]

FlowRemoved_parse(b) ==
    LET After(pat) == FlowRemoved_parse_body(b, pat, pat.pos)
    IN  After(Pattern_parse(b, 0))

\* String::from_utf8 accepts exactly the well-formed UTF-8 byte sequences
RECURSIVE Utf8Valid(_, _)
Utf8Valid(s, i) ==
    LET c == Byte(s, i)
        c1 == Byte(s, i + 1)
        c2 == Byte(s, i + 2)
        c3 == Byte(s, i + 3)
        Cont(x) == x >= 128 /\ x <= 191
    IN  IF i > Len(s) THEN TRUE
        ELSE IF c < 128 THEN Utf8Valid(s, i + 1)
        ELSE IF c >= 194 /\ c <= 223 THEN
            i + 1 <= Len(s) /\ Cont(c1) /\ Utf8Valid(s, i + 2)
        ELSE IF c >= 224 /\ c <= 239 THEN
            /\ i + 2 <= Len(s)
            /\ Cont(c1) /\ Cont(c2)
            /\ (c = 224 => c1 >= 160)
            /\ (c = 237 => c1 <= 159)
            /\ Utf8Valid(s, i + 3)
        ELSE IF c >= 240 /\ c <= 244 THEN
            /\ i + 3 <= Len(s)
            /\ Cont(c1) /\ Cont(c2) /\ Cont(c3)
            /\ (c = 240 => c1 >= 144)
            /\ (c = 244 => c1 <= 143)
            /\ Utf8Valid(s, i + 4)
        ELSE FALSE

PortFeatures_of_int(d) ==
    [f_10mbhd |-> test_bit(0, d), f_10mbfd |-> test_bit(1, d),
     f_100mbhd |-> test_bit(2, d), f_100mbfd |-> test_bit(3, d),
     f_1gbhd |-> test_bit(4, d), f_1gbfd |-> test_bit(5, d),
     f_10gbfd |-> test_bit(6, d), copper |-> test_bit(7, d),
     fiber |-> test_bit(8, d), autoneg |-> test_bit(9, d),
     pause |-> test_bit(10, d), pause_asym |-> test_bit(11, d)]

StpStateNames == <<"Listen", "Learn", "Forward", "Block">>

\* the flag words are u32; every flag read lies in their low 16 bits
PortDesc_parse(b, p) ==
    LET name == Slice(b, p + 8, 16)
        config == read_u16(b, p + 26)
        state == read_u16(b, p + 30)
    IN  [ok |-> p + 24 <= Len(b) /\ Utf8Valid(name, 1) /\ p + OfpPhyPort_size <= Len(b),
         pos |-> p + OfpPhyPort_size,
         val |->
           [port_no |-> read_u16(b, p),
            hw_addr |-> <<0, 0>> \o Slice(b, p + 2, 6),
            name |-> name,
            config |-> [down |-> test_bit(0, config), no_stp |-> test_bit(1, config),
                        no_recv |-> test_bit(2, config),
                        no_recv_stp |-> test_bit(3, config),
                        no_flood |-> test_bit(4, config), no_fwd |-> test_bit(5, config),
                        no_packet_in |-> test_bit(6, config)],
            state |-> [down |-> test_bit(0, state),
                       stp_state |-> StpStateNames[((state \div 256) % 4) + 1]],
            curr |-> PortFeatures_of_int(read_u16(b, p + 34)),
            advertised |-> PortFeatures_of_int(read_u16(b, p + 38)),
            supported |-> PortFeatures_of_int(read_u16(b, p + 42)),
            peer |-> PortFeatures_of_int(read_u16(b, p + 46))]]

\* n calls of PortDesc::parse in a row from position p, each of which moves
\* the cursor by size_of::<OfpPhyPort>()
PortDesc_parse_n(b, p, n) ==
    LET Ports(ps) == [ok |-> \A i \in 1..n : ps[i].ok,
                      val |-> SeqOf([i \in 1..n |-> ps[i].val])]
    IN  Ports([i \in 1..n |-> PortDesc_parse(b, p + (i - 1) * OfpPhyPort_size)])

\* the number of ports is taken from the length of the whole body
SwitchFeatures_parse(b) ==
    LET caps == read_u16(b, 18)
        acts == read_u16(b, 22)
        ports == PortDesc_parse_n(b, OfpSwitchFeatures_size, Len(b) \div OfpPhyPort_size)
    IN  [ok |-> OfpSwitchFeatures_size <= Len(b) /\ ports.ok,
         val |->
           [datapath_id |-> Slice(b, 0, 8),
            num_buffers |-> Slice(b, 8, 4),
            num_tables |-> Byte(b, 13),
            supported_capabilities |->
              [flow_stats |-> test_bit(0, caps), table_stats |-> test_bit(1, caps),
               port_stats |-> test_bit(2, caps), stp |-> test_bit(3, caps),
               ip_reasm |-> test_bit(5, caps), queue_stats |-> test_bit(6, caps),
               arp_match_ip |-> test_bit(7, caps)],
            supported_actions |->
              [output |-> test_bit(0, acts), set_vlan_id |-> test_bit(1, acts),
               set_vlan_pcp |-> test_bit(2, acts), strip_vlan |-> test_bit(3, acts),
               set_dl_src |-> test_bit(4, acts), set_dl_dst |-> test_bit(5, acts),
               set_nw_src |-> test_bit(6, acts), set_nw_dst |-> test_bit(7, acts),
               set_nw_tos |-> test_bit(8, acts), set_tp_src |-> test_bit(9, acts),
               set_tp_dst |-> test_bit(10, acts), enqueue |-> test_bit(11, acts),
               vendor |-> test_bit(12, acts)],
            ports |-> ports.val]]

PortStatus_parse(b) ==
    LET desc == PortDesc_parse(b, 8)
    IN  [ok |-> 1 <= Len(b) /\ desc.ok,
         val |-> [reason |-> Byte(b, 1), desc |-> desc.val]]

ErrorTypeNames ==
    <<"HelloFailed", "BadRequest", "BadAction", "FlowModFailed", "PortModFailed",
      "QueueOpFailed">>

\* ok = FALSE is a read past the end or the panic "bad ErrorType in Error";
\* the data is the cursor's whole vector (into_inner)
Error_parse(b) ==
    LET error_type == read_u16(b, 0)
    IN  [ok |-> 4 <= Len(b) /\ error_type < Len(ErrorTypeNames),
         val |-> [typ |-> IF error_type < Len(ErrorTypeNames)
                          THEN ErrorTypeNames[error_type + 1] ELSE "",
                  code |-> read_u16(b, 2),
                  data |-> b]]

\* Message::parse on the arm that the header's type code selects
Message_parse(header, b, code) ==
    LET Ret(r, tag) == [ok |-> r.ok, xid |-> header.xid, msg |-> Msg(tag, r.val)]
        Unit(tag) == [ok |-> TRUE, xid |-> header.xid, msg |-> Msg(tag, <<>>)]
    IN  CASE code = "Hello" -> Unit("Hello")
          [] code = "Error" -> Ret(Error_parse(b), "Error")
          [] code = "EchoReq" -> [ok |-> TRUE, xid |-> header.xid, msg |-> EchoRequest(b)]
          [] code = "EchoResp" -> [ok |-> TRUE, xid |-> header.xid, msg |-> EchoReply(b)]
          [] code = "FeaturesResp" -> Ret(SwitchFeatures_parse(b), "FeaturesReply")
          [] code = "FlowMod" -> Ret(FlowMod_parse(b), "FlowMod")
          [] code = "PacketIn" -> Ret(PacketIn_parse(b), "PacketIn")
          [] code = "FlowRemoved" -> Ret(FlowRemoved_parse(b), "FlowRemoved")
          [] code = "PortStatus" -> Ret(PortStatus_parse(b), "PortStatus")
          [] code = "PacketOut" -> Ret(PacketOut_parse(b), "PacketOut")
          [] code = "BarrierReq" -> Unit("BarrierRequest")
          [] code = "BarrierResp" -> Unit("BarrierReply")
          [] OTHER -> [ok |-> FALSE, xid |-> header.xid, msg |-> Msg("Unexpected", <<>>)]

(***************************************************************************)
(* packet.rs                                                               *)
(***************************************************************************)
\* the u64 (b0 << 40) | ... | b5, as its eight big-endian bytes
mac_of_bytes(addr) == <<0, 0>> \o addr

TcpNet_size == 20
Udp_size_of == 8
Icmp_size_of == 4
IpNet_size == 20
ArpNet_size == 28
IpICMP == 1
IpTCP == 6
IpUDP == 17
EthTypIP == 2048
EthTypARP == 2054
EthTypVLAN == 33024

\* Tcp::parse, Udp::parse and Icmp::parse at position p: "none" is the None
\* returned for a short vector, "panic" a read past the end.  The payload
\* buffer has the length of the cursor's whole vector and is filled by
\* read_exact from what is left after the header.
Tp_parse(b, p, min_len, hdr_len, kind) ==
    IF Len(b) < min_len THEN [res |-> "none", kind |-> kind, payload |-> <<>>]
    ELSE IF p + hdr_len + Len(b) <= Len(b)
         THEN [res |-> "some", kind |-> kind, payload |-> Slice(b, p + hdr_len, Len(b))]
         ELSE [res |-> "panic", kind |-> kind, payload |-> <<>>]

Tcp_parse(b, p) == Tp_parse(b, p, TcpNet_size, 20, "Tcp")
Udp_parse(b, p) == Tp_parse(b, p, Udp_size_of, 6, "Udp")
Icmp_parse(b, p) == Tp_parse(b, p, Icmp_size_of, 4, "Icmp")

Unparsable(code, bytes) == [res |-> "some", kind |-> "Unparsable", code |-> code, payload |-> bytes]

\* Ip::parse at position p: res is "some", "none" or "panic"
Ip_parse(b, p) ==
    LET vhl == Byte(b, p + 1)
        ihl == vhl % 16
        proto == Byte(b, p + 10)
        options_len == ihl * 4 - IpNet_size
        q == p + IpNet_size + options_len
        tp == CASE proto = IpICMP -> Icmp_parse(b, q)
                [] proto = IpTCP -> Tcp_parse(b, q)
                [] proto = IpUDP -> Udp_parse(b, q)
                [] OTHER -> Unparsable(proto, b)
        inner == IF tp.res = "none" THEN Unparsable(proto, b) ELSE tp
        NoIp(res) == [res |-> res, kind |-> "Ip"]
    IN  IF Len(b) < IpNet_size THEN NoIp("none")
        ELSE IF p + 1 > Len(b) THEN NoIp("panic")
        ELSE IF vhl \div 16 # 4 THEN NoIp("none")
        ELSE IF p + IpNet_size > Len(b) \/ options_len < 0 \/ q > Len(b) THEN NoIp("panic")
        ELSE IF inner.res = "panic" THEN NoIp("panic")
        ELSE [res |-> "some", kind |-> "Ip",
              tos |-> Byte(b, p + 2), ident |-> read_u16(b, p + 4),
              frag |-> read_u16(b, p + 6), ttl |-> Byte(b, p + 9),
              chksum |-> read_u16(b, p + 10), src |-> Slice(b, p + 12, 4),
              dst |-> Slice(b, p + 16, 4),
              options |-> Slice(b, p + IpNet_size, options_len), tp |-> inner]

\* Arp::parse at position p
Arp_parse(b, p) ==
    LET oper == read_u16(b, p + 6)
        sha == mac_of_bytes(Slice(b, p + 8, 6))
        spa == Slice(b, p + 14, 4)
        tha == mac_of_bytes(Slice(b, p + 18, 6))
        tpa == Slice(b, p + 24, 4)
    IN  IF Len(b) < ArpNet_size THEN [res |-> "none", kind |-> "Arp"]
        ELSE IF p + ArpNet_size > Len(b) THEN [res |-> "panic", kind |-> "Arp"]
        ELSE IF oper = 1
             THEN [res |-> "some", kind |-> "Arp", op |-> "Query",
                   sha |-> sha, spa |-> spa, tha |-> U64Zero, tpa |-> tpa]
        ELSE IF oper = 2
             THEN [res |-> "some", kind |-> "Arp", op |-> "Reply",
                   sha |-> sha, spa |-> spa, tha |-> tha, tpa |-> tpa]
        ELSE [res |-> "none", kind |-> "Arp"]

\* Packet::parse; ok = FALSE when it panics
Packet_parse(b) ==
    LET typ0 == read_u16(b, 12)
        tagged == typ0 = EthTypVLAN
        tag_and_pcp == read_u16(b, 14)
        typ == IF tagged THEN read_u16(b, 16) ELSE typ0
        p == IF tagged THEN 18 ELSE 14
        nw == CASE typ = EthTypIP -> Ip_parse(b, p)
                [] typ = EthTypARP -> Arp_parse(b, p)
                [] OTHER -> Unparsable(typ, b)
    IN  [ok |-> p <= Len(b) /\ nw.res # "panic",
         val |-> [dl_src |-> mac_of_bytes(Slice(b, 6, 6)),
                  dl_dst |-> mac_of_bytes(Slice(b, 0, 6)),
                  dl_vlan |-> IF tagged THEN Some(tag_and_pcp % 4096) ELSE None,
                  dl_vlan_dei |-> tagged /\ test_bit(12, tag_and_pcp),
                  dl_vlan_pcp |-> IF tagged THEN tag_and_pcp \div 8192 ELSE 0,
                  nw |-> IF nw.res = "none" THEN Unparsable(typ, b) ELSE nw]]

parse_payload(payload) == Packet_parse(payload.data)

(***************************************************************************)
(* The history of a connection: what the worker did, in order.  k is the  *)
(* number of the incoming message the event belongs to (0: on connect).    *)
(*   read   tag = "header" | "body" | "body_err" | "eof" | "err", or       *)
(*          "body_eof" for a read into a non-empty message_buf that        *)
(*          returned Ok(0); data = the bytes the read took from the stream *)
(*   recv   the message was parsed and handed to process_message:          *)
(*          xid = its xid, tag = its variant, data = its body              *)
(*   call   an application callback was invoked: tag = its name,           *)
(*          data = the datapath id passed, xid = the xid at hand           *)
(*   write  a buffer was written: tag = the variant of the message,        *)
(*          xid = its xid, data = the bytes                                *)
(***************************************************************************)
Ev(ev, k, xid, tag, data) == [ev |-> ev, k |-> k, xid |-> xid, tag |-> tag, data |-> data]

\* OfpController::send_message: ok = FALSE when Message::marshal panics
send_message(xid, message, k) ==
    LET Write(raw_msg) ==
          [ok |-> raw_msg.ok,
           evs |-> IF raw_msg.ok
                   THEN <<Ev("write", k, xid, message.tag, raw_msg.bytes)>>
                   ELSE <<>>]
    IN  Write(Message_marshal(xid, message))

Message_add_flow(prio, pattern, actions) ==
    [command |-> 0, pattern |-> pattern, priority |-> prio, actions |-> actions,
     cookie |-> U64Zero, idle_timeout |-> Permanent, hard_timeout |-> Permanent,
     notify_when_removed |-> FALSE, out_port |-> None, apply_to_packet |-> None,
     check_overlap |-> FALSE]

(***************************************************************************)
(* learning_switch.rs                                                      *)
(***************************************************************************)
\* the six address bytes of a MAC held in a u64 (the source stores the u64
\* itself into the pattern's [u8; 6] field)
MacField(mac) == Slice(mac, 2, 6)

HostsInsert(hosts, mac, port) ==
    [m \in (DOMAIN hosts) \cup {mac} |-> IF m = mac THEN port ELSE hosts[m]]

\* learning_packet_in: ok = FALSE when parse_payload panics
LearningSwitch_learning_packet_in(hosts, pkt) ==
    LET Learn(pk) ==
          [ok |-> pk.ok,
           hosts |-> IF pk.ok THEN HostsInsert(hosts, pk.val.dl_src, pkt.port) ELSE hosts]
    IN  Learn(parse_payload(pkt.input_payload))

\* the branch of routing_packet_in for a destination known at port p
LearningSwitch_route_known(pkt_dst, pkt_src, p, pkt, k) ==
    LET src_dst_match == [Pattern_match_all EXCEPT !.dl_dst = Some(MacField(pkt_dst)),
                                                   !.dl_src = Some(MacField(pkt_src))]
        dst_src_match == [Pattern_match_all EXCEPT !.dl_dst = Some(MacField(pkt_src)),
                                                   !.dl_src = Some(MacField(pkt_dst))]
    IN  send_message(Zeros(4),
            Msg("FlowMod", Message_add_flow(10, src_dst_match,
                                            <<Output(PhysicalPort(p))>>)), k).evs
        \o send_message(Zeros(4),
            Msg("FlowMod", Message_add_flow(10, dst_src_match,
                                            <<Output(PhysicalPort(pkt.port))>>)), k).evs
        \o send_message(Zeros(4),
            Msg("PacketOut", [output_payload |-> pkt.input_payload, port_id |-> None,
                              apply_actions |-> <<Output(PhysicalPort(p))>>]), k).evs

\* the branch of routing_packet_in for an unknown destination
LearningSwitch_route_flood(pkt, k) ==
    send_message(Zeros(4),
        Msg("PacketOut", [output_payload |-> pkt.input_payload, port_id |-> None,
                          apply_actions |-> <<Output(PP("AllPorts", 0))>>]), k).evs

LearningSwitch_routing_packet_in(hosts, sw, pkt, k) ==
    LET Route(pk) ==
          IF ~pk.ok THEN [ok |-> FALSE, evs |-> <<>>]
          ELSE IF pk.val.dl_dst \in DOMAIN hosts
               THEN [ok |-> TRUE,
                     evs |-> LearningSwitch_route_known(pk.val.dl_dst, pk.val.dl_src,
                                                        hosts[pk.val.dl_dst], pkt, k)]
               ELSE [ok |-> TRUE, evs |-> LearningSwitch_route_flood(pkt, k)]
    IN  Route(parse_payload(pkt.input_payload))

LearningSwitch_packet_in(hosts, sw, xid, pkt, k) ==
    LET Routed(learn, route) == [ok |-> route.ok, hosts |-> learn.hosts, evs |-> route.evs]
        Learned(learn) ==
          IF ~learn.ok THEN [ok |-> FALSE, hosts |-> hosts, evs |-> <<>>]
          ELSE Routed(learn, LearningSwitch_routing_packet_in(learn.hosts, sw, pkt, k))
    IN  Learned(LearningSwitch_learning_packet_in(hosts, pkt))

(***************************************************************************)
(* ofp_controller.rs: ThreadState                                          *)
(***************************************************************************)
\* the number of variants of the enum an Error's code is transmuted into
ErrorCodeCount(typ) ==
    CASE typ = "HelloFailed" -> 2
      [] typ = "BadRequest" -> 9
      [] typ = "BadAction" -> 9
      [] typ = "FlowModFailed" -> 6
      [] typ = "PortModFailed" -> 2
      [] typ = "QueueOpFailed" -> 3
      [] OTHER -> 0

\* printing an Error whose code is no variant of its enum is undefined
\* behaviour: the worker may go on or die
ErrorPrintOutcomes(msg) ==
    IF msg.tag = "Error" /\ msg.body.code >= ErrorCodeCount(msg.body.typ)
    THEN {TRUE, FALSE} ELSE {TRUE}

\* a faulty variant of the FeaturesReply arm: a later FeaturesReply is taken
\* like the first
process_features_reply_again(sid, hosts, xid, feats, k) ==
    [ok |-> TRUE, switch_id |-> Some(feats.datapath_id), known_hosts |-> hosts,
     evs |-> <<Ev("call", k, xid, "switch_connected", feats.datapath_id)>>]

\* lines 48-55: the FeaturesReply arm; ok = FALSE is the panic "Switch
\* connection already received."
process_features_reply(sid, hosts, xid, feats, k) ==
    IF IsSome(sid)
    THEN [ok |-> FALSE, switch_id |-> sid, known_hosts |-> hosts, evs |-> <<>>]
    ELSE [ok |-> TRUE, switch_id |-> Some(feats.datapath_id), known_hosts |-> hosts,
          evs |-> <<Ev("call", k, xid, "switch_connected", feats.datapath_id)>>]

\* a faulty variant of the PacketIn arm: unwrap_or(0) in place of unwrap
process_packet_in_unchecked(sid, hosts, xid, pkt, k) ==
    LET PacketIn(r) ==
          [ok |-> r.ok, switch_id |-> sid, known_hosts |-> r.hosts,
           evs |-> <<Ev("call", k, xid, "packet_in", UnwrapOr(sid, U64Zero))>> \o r.evs]
    IN  PacketIn(LearningSwitch_packet_in(hosts, UnwrapOr(sid, U64Zero), xid, pkt, k))

\* lines 56-58: the PacketIn arm; ok = FALSE when switch_id.unwrap() or the
\* callback panics
process_packet_in(sid, hosts, xid, pkt, k) ==
    LET PacketIn(r) ==
          [ok |-> r.ok, switch_id |-> sid, known_hosts |-> r.hosts,
           evs |-> <<Ev("call", k, xid, "packet_in", Unwrap(sid))>> \o r.evs]
    IN  IF ~IsSome(sid)
        THEN [ok |-> FALSE, switch_id |-> sid, known_hosts |-> hosts, evs |-> <<>>]
        ELSE PacketIn(LearningSwitch_packet_in(hosts, Unwrap(sid), xid, pkt, k))

\* process_message on message number k; survives is the outcome of printing
\* an Error.  ok = FALSE when it panics; evs are the events up to the panic.
process_message(sid, hosts, xid, msg, k, survives) ==
    LET Same(evs) == [ok |-> TRUE, switch_id |-> sid, known_hosts |-> hosts, evs |-> evs]
        Dead(evs) == [ok |-> FALSE, switch_id |-> sid, known_hosts |-> hosts, evs |-> evs]
    IN  CASE msg.tag = "Hello" -> Same(send_message(xid, FeaturesReq, k).evs)
          [] msg.tag = "Error" -> IF survives THEN Same(<<>>) ELSE Dead(<<>>)
          [] msg.tag = "EchoRequest" -> Same(send_message(xid, EchoReply(msg.body), k).evs)
          [] msg.tag = "FeaturesReply" ->
               process_features_reply(sid, hosts, xid, msg.body, k)
          [] msg.tag = "PacketIn" -> process_packet_in(sid, hosts, xid, msg.body, k)
          [] OTHER -> Same(<<>>)

\* ThreadState::switch_disconnected: ok = FALSE when switch_id.unwrap() panics
switch_disconnected(sid, k) ==
    IF IsSome(sid)
    THEN [ok |-> TRUE, evs |-> <<Ev("call", k, Zeros(4), "switch_disconnected", Unwrap(sid))>>]
    ELSE [ok |-> FALSE, evs |-> <<>>]

(***************************************************************************)
(* The peer: the byte stream a switch sends on one connection.  The bytes  *)
(* are kept small where they can be: after a short read the loop takes     *)
(* whatever bytes come next for a header, and its length field sizes the   *)
(* body buffer.                                                            *)
(***************************************************************************)
PeerMsg(typ, xid, body) ==
    <<1, typ>> \o write_u16(OfpHeader_size + Len(body)) \o xid \o body

Xid(n) == write_u32(n)
DpidA == <<0, 1, 0, 2, 0, 3, 0, 4>>
DpidB == <<0, 0, 0, 0, 0, 0, 0, 9>>
MacA == <<0, 1, 0, 0, 0, 1>>
MacB == <<0, 2, 0, 0, 0, 2>>

PeerHello(x) == PeerMsg(0, Xid(x), <<>>)
PeerEchoRequest(x, payload) == PeerMsg(2, Xid(x), payload)
PeerFeaturesReply(x, dpid) ==
    PeerMsg(6, Xid(x), dpid \o write_u32(256) \o <<1, 0, 0, 0>> \o write_u32(7)
                       \o write_u32(15))
PeerPacketIn(x, buf_id, total_len, in_port, frame) ==
    PeerMsg(10, Xid(x), buf_id \o write_u16(total_len) \o write_u16(in_port)
                        \o <<0, 0>> \o frame)
PeerError(x, typ, code, data) == PeerMsg(1, Xid(x), write_u16(typ) \o write_u16(code) \o data)
Frame(dst, src, typ) == dst \o src \o write_u16(typ)

\* an ofp_match: the wildcard word and the fields at their fixed offsets
PeerMatch(wildcards, in_port, dl_src, dl_dst, dl_vlan, dl_vlan_pcp, dl_type, nw_tos,
          nw_proto, nw_src, nw_dst, tp_src, tp_dst) ==
    write_u32(wildcards) \o write_u16(in_port) \o dl_src \o dl_dst \o write_u16(dl_vlan)
    \o <<dl_vlan_pcp, 0>> \o write_u16(dl_type) \o <<nw_tos, nw_proto, 0, 0>>
    \o nw_src \o nw_dst \o write_u16(tp_src) \o write_u16(tp_dst)

\* every field given; every field wildcarded
PeerMatchExact ==
    PeerMatch(0, 3, MacA, MacB, 5, 2, 2048, 16, 6, <<10, 0, 0, 1>>, <<10, 0, 1, 2>>, 1234, 80)
PeerMatchAll ==
    PeerMatch(4194303, 0, Zeros(6), Zeros(6), 0, 0, 0, 0, 0, Zeros(4), Zeros(4), 0, 0)

\* an ofp_action_output
PeerActionOutput(port, max_len) == <<0, 0, 0, 8>> \o write_u16(port) \o write_u16(max_len)

PeerFlowRemoved(x, match, priority, reason, idle_timeout) ==
    PeerMsg(11, Xid(x),
            match \o <<0, 0, 0, 0, 0, 0, 0, 9>> \o write_u16(priority) \o <<reason, 0>>
            \o <<0, 0, 0, 4>> \o <<0, 0, 1, 0>> \o write_u16(idle_timeout) \o <<0, 0>>
            \o <<0, 0, 0, 0, 0, 0, 0, 7>> \o <<0, 0, 0, 0, 0, 0, 2, 0>>)

PeerFlowMod(x, match, priority, actions) ==
    PeerMsg(14, Xid(x),
            match \o U64Zero \o write_u16(0) \o write_u16(5) \o write_u16(0)
            \o write_u16(priority) \o AllOnes32 \o write_u16(OFPPNone) \o write_u16(1)
            \o actions)

PeerPacketOut(x, buf_id, in_port, actions, data) ==
    PeerMsg(13, Xid(x),
            buf_id \o write_u16(in_port) \o write_u16(Len(actions)) \o actions \o data)

\* an ofp_match with every field given, in small bytes
PeerMatchLow ==
    PeerMatch(0, 3, MacA, MacB, 5, 2, 2048, 16, 6, <<10, 0, 0, 1>>, <<10, 0, 1, 2>>, 22, 21)

PeerFeaturesReq(x) == PeerMsg(5, Xid(x), <<>>)
PeerBarrierRequest(x) == PeerMsg(18, Xid(x), <<>>)
PeerBarrierReply(x) == PeerMsg(19, Xid(x), <<>>)

\* an ofp_port_status: the reason, 7 bytes of padding and an ofp_phy_port
\* named "p1"
PeerPortStatus(x, reason, port_no) ==
    PeerMsg(12, Xid(x),
            <<reason>> \o Zeros(7) \o write_u16(port_no) \o MacA
            \o <<112, 49>> \o Zeros(14) \o Zeros(4) \o <<0, 0, 2, 0>> \o Zeros(16))

\* an ofp_flow_mod that adds a flow with one output action
PeerFlowModLow(x) ==
    PeerMsg(14, Xid(x),
            PeerMatchLow \o U64Zero \o write_u16(0) \o write_u16(5) \o write_u16(0)
            \o write_u16(7) \o <<0, 0, 0, 1>> \o write_u16(2) \o write_u16(1)
            \o PeerActionOutput(2, 0))

\* Packet::parse is given the whole body of a PacketIn, so the address it
\* takes for the source is bytes 6..11 of the body and the one it takes for
\* the destination is bytes 0..5: the second PacketIn of the first stream is
\* to the address learnt from the first
Scripts ==
    << \* the handshake, an echo and two packets
       PeerHello(5) \o PeerFeaturesReply(6, DpidA)
         \o PeerEchoRequest(7, <<3, 1, 2>>)
         \o PeerPacketIn(9, <<0, 0, 0, 1>>, 14, 3, Frame(MacB, MacA, 2056))
         \o PeerPacketIn(10, <<0, 3, 0, 0>>, 2, 4, Frame(MacA, MacB, 2056)),
       \* a second FeaturesReply
       PeerHello(5) \o PeerFeaturesReply(6, DpidA) \o PeerFeaturesReply(7, DpidB)
         \o PeerEchoRequest(8, <<1>>),
       \* a packet before the handshake has completed
       PeerHello(5) \o PeerPacketIn(9, <<0, 0, 0, 1>>, 14, 3, Frame(MacB, MacA, 2056))
         \o PeerFeaturesReply(6, DpidA),
       \* no Hello from the peer, then two
       PeerEchoRequest(1, <<>>) \o PeerFeaturesReply(2, DpidB) \o PeerHello(3)
         \o PeerHello(4) \o PeerEchoRequest(5, <<9, 9>>),
       \* errors, one with a code that is no variant, and a type byte that is
       \* no MsgCode
       PeerHello(1) \o PeerError(2, 1, 6, <<1, 0>>) \o PeerFeaturesReply(3, DpidA)
         \o PeerError(4, 0, 7, <<>>) \o PeerMsg(22, Xid(5), <<>>),
       \* a Hello and an echo with large bytes
       PeerHello(42) \o PeerEchoRequest(7, <<170, 187, 204>>),
       \* the header of an echo with three bytes of payload, and no payload
       PeerHello(5) \o <<1, 2, 0, 11, 0, 0, 0, 7>>,
       \* after the handshake, messages a controller has no use for
       PeerHello(5) \o PeerFeaturesReply(6, DpidA)
         \o PeerFlowRemoved(7, PeerMatchLow, 7, 1, 5) \o PeerPortStatus(8, 1, 3)
         \o PeerBarrierRequest(9) \o PeerBarrierReply(10)
         \o PeerPacketOut(11, <<0, 0, 0, 1>>, 3, <<>>, <<>>) \o PeerEchoRequest(12, <<4>>),
       \* after the handshake, a FlowMod
       PeerHello(5) \o PeerFeaturesReply(6, DpidA) \o PeerFlowModLow(7)
         \o PeerEchoRequest(8, <<4>>),
       \* after the handshake, a FeaturesReq
       PeerHello(5) \o PeerFeaturesReply(6, DpidA) \o PeerFeaturesReq(7)
         \o PeerEchoRequest(8, <<4>>),
       \* a Vendor message
       PeerHello(5) \o PeerMsg(4, Xid(6), <<0, 0, 0, 1>>) \o PeerEchoRequest(7, <<>>),
       \* nothing at all
       <<>> >>

(***************************************************************************)
(* ofp_controller.rs: handle_client_connected                              *)
(***************************************************************************)
\* how many reads of a connection may come back with fewer bytes than were
\* there to take, and how many may fail
MaxShortReads == 1
MaxReadErrs == 2

Min(a, b) == IF a <= b THEN a ELSE b

\* what a read into a buffer of want > 0 bytes may return when avail > 0
\* bytes have arrived: all it can, or fewer (the shortest and the longest of
\* the short reads are taken)
ReadCounts(want, avail, sh) ==
    {Min(want, avail)}
    \cup (IF sh < MaxShortReads /\ Min(want, avail) > 1
          THEN {1, Min(want, avail) - 1} ELSE {})

\* the read of the body into message_buf, whose result the loop ignores:
\* n bytes are stored, by a read that came back short or failed
BodyReads(want, avail, sh, er) ==
    IF want = 0 \/ avail = 0 THEN {[n |-> 0, err |-> 0]}
    ELSE {[n |-> j, err |-> 0] : j \in ReadCounts(want, avail, sh)}
         \cup (IF er < MaxReadErrs THEN {[n |-> 0, err |-> 1]} ELSE {})

IsShort(n, want, avail) == IF n < Min(want, avail) THEN 1 ELSE 0

Overlay(old, new, n) ==
    SeqOf([i \in 1..Len(old) |-> IF i <= n THEN new[i] ELSE old[i]])

ConnInit ==
    /\ pc = "start"
    /\ switch_id = None
    /\ known_hosts = <<>>
    /\ buf = Zeros(OfpHeader_size)
    /\ inp \in {Scripts[i] : i \in 1..Len(Scripts)}
    /\ shorts = 0
    /\ errs = 0
    /\ nmsg = 0
    /\ hist = <<>>

CodecIdle ==
    /\ cpc = "idle"
    /\ cmsg = Hello
    /\ cxid = Zeros(4)
    /\ cwire = <<>>
    /\ cparsed = <<>>

Init == ConnInit /\ CodecIdle

\* a faulty variant of the entry of handle_client_connected: no Hello is sent
Connect_without_hello ==
    /\ pc = "start"
    /\ pc' = "loop"
    /\ hist' = hist
    /\ known_hosts' = <<>>
    /\ switch_id' = None
    /\ buf' = Zeros(OfpHeader_size)
    /\ UNCHANGED <<inp, shorts, errs, nmsg>>
    /\ UNCHANGED codecVars

\* lines 113-122: the controller is created and the Hello is sent
Connect ==
    /\ pc = "start"
    /\ pc' = "loop"
    /\ hist' = hist \o send_message(Zeros(4), Hello, 0).evs
    /\ known_hosts' = <<>>
    /\ switch_id' = None
    /\ buf' = Zeros(OfpHeader_size)
    /\ UNCHANGED <<inp, shorts, errs, nmsg>>
    /\ UNCHANGED codecVars

\* a faulty variant of the loop body: the responses are written before the
\* message is read
Processed_early(evs, r) ==
    /\ pc' = IF r.ok THEN "loop" ELSE "panicked"
    /\ switch_id' = r.switch_id
    /\ known_hosts' = r.known_hosts
    /\ hist' = hist \o r.evs \o evs

\* line 132: process_message has returned r, or has panicked
Processed(evs, r) ==
    /\ pc' = IF r.ok THEN "loop" ELSE "panicked"
    /\ switch_id' = r.switch_id
    /\ known_hosts' = r.known_hosts
    /\ hist' = hist \o evs \o r.evs

\* lines 131-132: Message::parse has returned parsed, or has panicked
Dispatch(k, rdh, rdb, parsed) ==
    IF ~parsed.ok
    THEN /\ pc' = "panicked"
         /\ hist' = hist \o <<rdh, rdb>>
         /\ UNCHANGED <<switch_id, known_hosts>>
    ELSE \E survives \in ErrorPrintOutcomes(parsed.msg) :
           Processed(<<rdh, rdb, Ev("recv", k, parsed.xid, parsed.msg.tag, parsed.msg.body)>>,
                     process_message(switch_id, known_hosts, parsed.xid, parsed.msg, k,
                                     survives))

\* lines 128-130: the body is read into a zeroed buffer of message_len bytes
ReadBody(k, header, message_len, rdh, inp1, sh1) ==
    \E m \in BodyReads(message_len, Len(inp1), sh1, errs) :
    \E code \in type_code(header) :
      /\ inp' = Tail_from(inp1, m.n)
      /\ shorts' = sh1 + IsShort(m.n, message_len, Len(inp1)) * (1 - m.err)
      /\ errs' = errs + m.err
      /\ Dispatch(k, rdh,
                  Ev("read", k, Zeros(4),
                     IF m.err = 1 THEN "body_err"
                     ELSE IF message_len > 0 /\ inp1 = <<>> THEN "body_eof" ELSE "body",
                     Slice(inp1, 0, m.n)),
                  Message_parse(header, Overlay(Zeros(message_len), inp1, m.n), code))

\* lines 126-127: the header is parsed from buf
ReadHeader(k, header, rdh, inp1, sh1) ==
    IF header.length < OfpHeader_size
    THEN /\ pc' = "panicked"
         /\ hist' = hist \o <<rdh>>
         /\ inp' = inp1
         /\ shorts' = sh1
         /\ UNCHANGED <<switch_id, known_hosts, errs>>
    ELSE ReadBody(k, header, header.length - OfpHeader_size, rdh, inp1, sh1)

\* lines 124-133: the header read returns n > 0 bytes
ReadMessage ==
    /\ pc = "loop"
    /\ inp # <<>>
    /\ \E n \in ReadCounts(OfpHeader_size, Len(inp), shorts) :
         /\ buf' = Overlay(buf, inp, n)
         /\ ReadHeader(nmsg + 1, OfpHeader_parse(buf'),
                       Ev("read", nmsg + 1, Zeros(4), "header", Slice(inp, 0, n)),
                       Tail_from(inp, n), shorts + IsShort(n, OfpHeader_size, Len(inp)))
    /\ nmsg' = nmsg + 1
    /\ UNCHANGED codecVars

\* lines 134-137: the read returns Ok(0), the peer has closed
ReadClosed ==
    /\ pc = "loop"
    /\ inp = <<>>
    /\ pc' = "closed"
    /\ hist' = hist \o <<Ev("read", nmsg + 1, Zeros(4), "eof", <<>>)>>
    /\ UNCHANGED <<switch_id, known_hosts, buf, inp, shorts, errs, nmsg>>
    /\ UNCHANGED codecVars

\* lines 138-141: the read returns Err
ReadError ==
    /\ pc = "loop"
    /\ errs < MaxReadErrs
    /\ pc' = IF switch_disconnected(switch_id, nmsg + 1).ok THEN "loop" ELSE "panicked"
    /\ hist' = hist \o <<Ev("read", nmsg + 1, Zeros(4), "err", <<>>)>>
                     \o switch_disconnected(switch_id, nmsg + 1).evs
    /\ errs' = errs + 1
    /\ UNCHANGED <<switch_id, known_hosts, buf, inp, shorts, nmsg>>
    /\ UNCHANGED codecVars

Next == Connect \/ ReadMessage \/ ReadClosed \/ ReadError

Spec == Init /\ [][Next]_vars

(***************************************************************************)
(* The codec on its own: a message is marshalled with Message::marshal and *)
(* the buffer is taken apart again the way the connection loop does it:    *)
(* OfpHeader::parse on the first 8 bytes, then Message::parse on the       *)
(* header.length() - 8 bytes that follow.                                  *)
(***************************************************************************)
SamplePatterns ==
    <<Pattern_match_all,
      [Pattern_match_all EXCEPT !.dl_src = Some(MacA), !.dl_dst = Some(MacB)],
      [Pattern_match_all EXCEPT !.in_port = Some(3), !.dl_typ = Some(2048),
                                !.nw_src = Some(Mask(<<10, 0, 0, 1>>, None)),
                                !.nw_dst = Some(Mask(<<10, 0, 0, 0>>, Some(8))),
                                !.tp_dst = Some(80)]>>

SampleActions ==
    <<<<>>,
      <<Output(PhysicalPort(1))>>,
      <<SetDlVlan(Some(5)), Output(PP("AllPorts", 0)), Output(Controller(128))>>,
      <<Output(PP("Table", 0))>>>>

SampleFrame == Frame(MacB, MacA, 2056) \o <<1, 2, 3>>

\* action lists with an Output(Controller(_)) ahead of other actions
ControllerFirst == <<Output(Controller(128)), Output(PhysicalPort(1))>>
ControllerMixed ==
    <<Output(Controller(1)), SetDlVlan(Some(5)), Output(Controller(2)),
      Output(PhysicalPort(1)), SetNwTos(4)>>

SampleMessages ==
    <<Hello,
      FeaturesReq,
      BarrierRequest,
      BarrierReply,
      EchoRequest(<<>>),
      EchoRequest(<<170, 187, 204>>),
      EchoReply(<<1>>),
      Msg("Error", [typ |-> "BadRequest", code |-> 1, data |-> <<1, 2>>]),
      Msg("FeaturesReply", SwitchFeatures_parse(DpidA \o Zeros(16)).val),
      Msg("PacketIn", [input_payload |-> NotBuffered(SampleFrame), total_len |-> 17,
                       port |-> 3, reason |-> 0]),
      Msg("PortStatus", PortStatus_parse(<<1>> \o Zeros(55)).val),
      Msg("FlowRemoved", [pattern |-> SamplePatterns[2], cookie |-> U64Zero,
                          priority |-> 10, reason |-> 0, duration_sec |-> Zeros(4),
                          duration_nsec |-> Zeros(4), idle_timeout |-> ExpiresAfter(5),
                          packet_count |-> U64Zero, byte_count |-> U64Zero]),
      Msg("PacketOut", [output_payload |-> NotBuffered(SampleFrame), port_id |-> None,
                        apply_actions |-> SampleActions[1]]),
      Msg("PacketOut", [output_payload |-> Buffered(<<0, 0, 0, 7>>, <<>>),
                        port_id |-> Some(2), apply_actions |-> SampleActions[1]]),
      Msg("PacketOut", [output_payload |-> NotBuffered(SampleFrame), port_id |-> None,
                        apply_actions |-> SampleActions[2]]),
      Msg("PacketOut", [output_payload |-> Buffered(<<0, 0, 0, 7>>, <<>>),
                        port_id |-> Some(2), apply_actions |-> SampleActions[3]])>>
    \o [i \in 1..12 |->
          Msg("FlowMod",
              [Message_add_flow(10 * i, SamplePatterns[((i - 1) % 3) + 1],
                                SampleActions[((i - 1) \div 3) + 1])
               EXCEPT !.idle_timeout = IF i % 2 = 0 THEN ExpiresAfter(i) ELSE Permanent])]
    \o <<Msg("FlowMod", Message_add_flow(10, SamplePatterns[2],
                                         <<Output(PhysicalPort(2))>>)),
         Msg("FlowMod", Message_add_flow(20, Pattern_match_all, ControllerFirst)),
         Msg("FlowMod", Message_add_flow(20, Pattern_match_all, ControllerMixed)),
         Msg("FlowMod", Message_add_flow(30, Pattern_match_all,
                                         <<Output(PhysicalPort(1)), Output(PP("Table", 0))>>)),
         Msg("FlowMod", Message_add_flow(30, SamplePatterns[2],
                                         <<Output(Controller(5)), Output(PP("Table", 0)),
                                           Output(PhysicalPort(1))>>)),
         Msg("PacketOut", [output_payload |-> NotBuffered(SampleFrame), port_id |-> None,
                           apply_actions |-> ControllerFirst]),
         Msg("PacketOut", [output_payload |-> Buffered(<<0, 0, 0, 7>>, <<>>),
                           port_id |-> Some(2), apply_actions |-> ControllerMixed]),
         Msg("PacketOut", [output_payload |-> Buffered(<<127, 255, 255, 255>>, <<>>),
                           port_id |-> Some(1), apply_actions |-> <<>>]),
         Msg("PacketOut", [output_payload |-> Buffered(Zeros(4), SampleFrame),
                           port_id |-> None, apply_actions |-> <<>>]),
         Msg("PacketOut", [output_payload |-> Buffered(<<0, 0, 1, 0>>, <<>>),
                           port_id |-> Some(3),
                           apply_actions |-> <<Output(Controller(9)),
                                               Output(PP("Table", 0))>>])>>

SampleXids == <<Zeros(4), <<0, 0, 0, 42>>, AllOnes32, <<128, 0, 0, 1>>>>

\* the connection is not in use while the codec is exercised
ConnIdle ==
    /\ pc = "start"
    /\ switch_id = None
    /\ known_hosts = <<>>
    /\ buf = Zeros(OfpHeader_size)
    /\ inp = <<>>
    /\ shorts = 0
    /\ errs = 0
    /\ nmsg = 0
    /\ hist = <<>>

CodecInit ==
    /\ ConnIdle
    /\ cpc = "idle"
    /\ \E i \in 1..Len(SampleMessages) : cmsg = SampleMessages[i]
    /\ \E j \in 1..Len(SampleXids) : cxid = SampleXids[j]
    /\ cwire = <<>>
    /\ cparsed = <<>>

\* Message::marshal(cxid, cmsg)
Marshal ==
    /\ cpc = "idle"
    /\ cpc' = IF Message_marshal(cxid, cmsg).ok THEN "marshalled" ELSE "panicked"
    /\ cwire' = IF Message_marshal(cxid, cmsg).ok THEN Message_marshal(cxid, cmsg).bytes
                ELSE <<>>
    /\ UNCHANGED <<cmsg, cxid, cparsed>>
    /\ UNCHANGED connVars

\* the body buffer the loop hands to Message::parse for the header it read
BodyOf(wire, header) ==
    Overlay(Zeros(header.length - OfpHeader_size), Tail_from(wire, OfpHeader_size),
            Min(header.length - OfpHeader_size, Len(wire) - OfpHeader_size))

\* OfpHeader::parse and Message::parse on the marshalled buffer
Parse ==
    /\ cpc = "marshalled"
    /\ \E header \in {OfpHeader_parse(Slice(cwire, 0, OfpHeader_size))} :
         IF header.length < OfpHeader_size
         THEN cpc' = "parse_panicked" /\ cparsed' = <<>>
         ELSE \E code \in type_code(header) :
              \E r \in {Message_parse(header, BodyOf(cwire, header), code)} :
                 /\ cpc' = IF r.ok THEN "parsed" ELSE "parse_panicked"
                 /\ cparsed' = IF r.ok THEN <<r.xid, r.msg>> ELSE <<>>
    /\ UNCHANGED <<cmsg, cxid, cwire>>
    /\ UNCHANGED connVars

CodecNext == Marshal \/ Parse

CodecSpec == CodecInit /\ [][CodecNext]_vars

(***************************************************************************)
(* Pattern::marshal and Pattern::parse on their own: cmsg is the Pattern,  *)
(* cwire the bytes Pattern::marshal appends to an empty vector and cparsed *)
(* what Pattern::parse returns for a cursor at the start of those bytes.   *)
(***************************************************************************)
\* every combination of present and absent fields; dl_vlan absent, untagged
\* or tagged; nw_src and nw_dst absent, without a mask or with one
PatternInputs ==
    {[dl_src |-> a, dl_dst |-> b, dl_typ |-> c, dl_vlan |-> d, dl_vlan_pcp |-> e,
      nw_src |-> f, nw_dst |-> g, nw_proto |-> h, nw_tos |-> i, tp_src |-> j,
      tp_dst |-> k, in_port |-> l] :
        a \in {None, Some(MacA)},
        b \in {None, Some(MacB)},
        c \in {None, Some(2048)},
        d \in {None, Some(None), Some(Some(5))},
        e \in {None, Some(2)},
        f \in {None, Some(Mask(<<10, 0, 0, 1>>, None)), Some(Mask(<<10, 0, 0, 0>>, Some(8)))},
        g \in {None, Some(Mask(<<10, 0, 1, 2>>, None)), Some(Mask(<<10, 0, 1, 0>>, Some(24)))},
        h \in {None, Some(6)},
        i \in {None, Some(16)},
        j \in {None, Some(1234)},
        k \in {None, Some(80)},
        l \in {None, Some(3)}}

PatternInit ==
    /\ ConnIdle
    /\ cpc = "pattern"
    /\ cmsg \in PatternInputs
    /\ cxid = Zeros(4)
    /\ cwire = <<>>
    /\ cparsed = <<>>

\* Pattern::marshal(cmsg, &mut vec![])
PatternMarshal ==
    /\ cpc = "pattern"
    /\ cpc' = "pattern_marshalled"
    /\ cwire' = Pattern_marshal(cmsg)
    /\ UNCHANGED <<cmsg, cxid, cparsed>>
    /\ UNCHANGED connVars

\* Pattern::parse(&mut Cursor::new(cwire))
PatternParse ==
    /\ cpc = "pattern_marshalled"
    /\ \E r \in {Pattern_parse(cwire, 0)} :
         /\ cpc' = IF r.ok THEN "pattern_parsed" ELSE "pattern_panicked"
         /\ cparsed' = IF r.ok THEN <<r.val>> ELSE <<>>
    /\ UNCHANGED <<cmsg, cxid, cwire>>
    /\ UNCHANGED connVars

PatternNext == PatternMarshal \/ PatternParse

PatternSpec == PatternInit /\ [][PatternNext]_vars

(***************************************************************************)
(* The codec the other way round: a well-formed buffer received from a     *)
(* peer is taken apart as the connection loop does it (OfpHeader::parse on *)
(* the first 8 bytes, Message::parse on the rest) and the message and xid  *)
(* parsed are marshalled again with Message::marshal.  cwire is the buffer *)
(* received, cxid and cmsg what was parsed from it, and cparsed[3] the     *)
(* buffer marshalled from them.  The buffers are laid out as OpenFlow 1.0  *)
(* has them.                                                               *)
(***************************************************************************)
PeerEchoReply(x, payload) == PeerMsg(3, Xid(x), payload)

\* the frame of a packet from 00:11:22:33:44:55 to 00:aa:bb:cc:dd:ee
WireFrame ==
    Frame(<<0, 170, 187, 204, 221, 238>>, <<0, 17, 34, 51, 68, 85>>, 2056) \o <<1, 2, 3>>

WireXids == {7, 42, 256}

WireSamples ==
    {PeerEchoRequest(x, d) : x \in WireXids, d \in {<<>>, <<1>>, <<170, 187, 204>>}}
    \cup {PeerEchoReply(x, d) : x \in WireXids, d \in {<<>>, <<1>>, <<170, 187, 204>>}}
    \cup {PeerError(x, t, 1, d) : x \in WireXids, t \in {0, 1, 3}, d \in {<<>>, <<1, 2>>}}
    \cup {PeerFlowRemoved(x, m, 10, 1, t) :
            x \in WireXids, m \in {PeerMatchExact, PeerMatchAll}, t \in {0, 5}}
    \cup {PeerFlowMod(x, m, 10, a) :
            x \in WireXids, m \in {PeerMatchExact, PeerMatchAll},
            a \in {<<>>, PeerActionOutput(2, 0)}}
    \cup {PeerPacketOut(x, b, OFPPNone, a, d) :
            x \in WireXids, b \in {AllOnes32, <<0, 0, 0, 7>>},
            a \in {<<>>, PeerActionOutput(1, 0)}, d \in {<<>>, WireFrame}}
    \cup {PeerPacketIn(x, b, Len(WireFrame), 3, WireFrame) :
            x \in WireXids, b \in {AllOnes32, <<0, 0, 0, 7>>}}

WireInit ==
    /\ ConnIdle
    /\ cpc = "received"
    /\ cwire \in WireSamples
    /\ cmsg = Hello
    /\ cxid = Zeros(4)
    /\ cparsed = <<>>

\* OfpHeader::parse and Message::parse on the buffer received
ParseWire ==
    /\ cpc = "received"
    /\ \E header \in {OfpHeader_parse(Slice(cwire, 0, OfpHeader_size))} :
         IF header.length < OfpHeader_size
         THEN cpc' = "wire_panicked" /\ cparsed' = <<>> /\ UNCHANGED <<cmsg, cxid>>
         ELSE \E code \in type_code(header) :
              \E r \in {Message_parse(header, BodyOf(cwire, header), code)} :
                 /\ cpc' = IF r.ok THEN "wire_parsed" ELSE "wire_panicked"
                 /\ cparsed' = IF r.ok THEN <<r.xid, r.msg>> ELSE <<>>
                 /\ cxid' = IF r.ok THEN r.xid ELSE cxid
                 /\ cmsg' = IF r.ok THEN r.msg ELSE cmsg
    /\ UNCHANGED cwire
    /\ UNCHANGED connVars

\* Message::marshal(cxid, cmsg) on what was parsed
Remarshal ==
    /\ cpc = "wire_parsed"
    /\ \E raw_msg \in {Message_marshal(cxid, cmsg)} :
         /\ cpc' = IF raw_msg.ok THEN "remarshalled" ELSE "remarshal_panicked"
         /\ cparsed' = IF raw_msg.ok THEN Append(cparsed, raw_msg.bytes) ELSE cparsed
    /\ UNCHANGED <<cmsg, cxid, cwire>>
    /\ UNCHANGED connVars

WireNext == ParseWire \/ Remarshal

WireSpec == WireInit /\ [][WireNext]_vars

(***************************************************************************)
(* Properties of a connection, stated on its history                       *)
(***************************************************************************)
CallsOf(tag) == {i \in 1..Len(hist) : hist[i].ev = "call" /\ hist[i].tag = tag}
WritesOf(tag) == {i \in 1..Len(hist) : hist[i].ev = "write" /\ hist[i].tag = tag}
RecvsOf(tag) == {i \in 1..Len(hist) : hist[i].ev = "recv" /\ hist[i].tag = tag}

\* the bytes the reads have taken from the stream, in order
RECURSIVE ReadBytes(_)
ReadBytes(n) ==
    IF n = 0 THEN <<>>
    ELSE ReadBytes(n - 1) \o (IF hist[n].ev = "read" THEN hist[n].data ELSE <<>>)

\* C1: switch_connected is invoked at most once on a connection: the first
\* FeaturesReply received sets switch_id to Some(datapath_id) and is followed
\* by the callback with that datapath id; any later FeaturesReply is the last
\* thing the worker does (it panics), fires nothing and leaves switch_id as
\* the first one set it.
C1_SwitchConnectedAtMostOnce ==
    /\ Cardinality(CallsOf("switch_connected")) <= 1
    /\ (RecvsOf("FeaturesReply") = {} => switch_id = None)
    /\ \A i \in RecvsOf("FeaturesReply") :
         IF \A j \in RecvsOf("FeaturesReply") : i <= j
         THEN /\ i < Len(hist)
              /\ hist[i + 1].ev = "call"
              /\ hist[i + 1].tag = "switch_connected"
              /\ hist[i + 1].data = hist[i].data.datapath_id
              /\ switch_id = Some(hist[i].data.datapath_id)
         ELSE i = Len(hist) /\ pc = "panicked"

\* C1 witness: a second FeaturesReply, with another datapath id, has arrived
C1_Witness ==
    /\ \E i, j \in RecvsOf("FeaturesReply") :
         i < j /\ hist[i].data.datapath_id = DpidA /\ hist[j].data.datapath_id = DpidB
    /\ switch_id = Some(DpidA)
    /\ Cardinality(CallsOf("switch_connected")) = 1

\* C2: switch_disconnected is invoked at most once on a connection, and only
\* after switch_connected was invoked on it.
C2_SwitchDisconnectedAtMostOnce ==
    /\ Cardinality(CallsOf("switch_disconnected")) <= 1
    /\ \A i \in CallsOf("switch_disconnected") :
         \E j \in CallsOf("switch_connected") : j < i

\* C3: switch_disconnected is fired iff switch_connected had fired: when the
\* peer has closed the connection and the worker has ended, it was invoked
\* exactly once, with the datapath id of the handshake, if the handshake had
\* completed, and not at all otherwise.
C3_SwitchDisconnectedIffConnected ==
    /\ (CallsOf("switch_disconnected") # {} => CallsOf("switch_connected") # {})
    /\ (pc = "closed" =>
          IF CallsOf("switch_connected") # {}
          THEN /\ Cardinality(CallsOf("switch_disconnected")) = 1
               /\ \A i \in CallsOf("switch_disconnected") : Some(hist[i].data) = switch_id
          ELSE CallsOf("switch_disconnected") = {})

\* C4: the first thing handle_client_connected does on the connection is to
\* write a Hello with xid 0 (the bytes 01 00 00 08 00 00 00 00); every read
\* from the stream comes after it.
C4_HelloBeforeAnyRead ==
    /\ (pc = "start" => hist = <<>>)
    /\ (pc # "start" =>
          /\ Len(hist) >= 1
          /\ hist[1].ev = "write"
          /\ hist[1].tag = "Hello"
          /\ hist[1].xid = Zeros(4)
          /\ hist[1].data = <<1, 0, 0, 8, 0, 0, 0, 0>>)
    /\ \A i \in 1..Len(hist) : hist[i].ev = "read" => i > 1

\* C4 witness: the stream has been read from
C4_Witness ==
    /\ pc = "loop"
    /\ \E i \in 2..Len(hist) : hist[i].ev = "read" /\ hist[i].tag = "header"

C6_PacketInAfterConnected ==
    \A i \in CallsOf("packet_in") :
       /\ \E j \in CallsOf("switch_connected") : j < i /\ hist[i].data = hist[j].data
       /\ \E f \in RecvsOf("FeaturesReply") :
            f < i /\ hist[i].data = hist[f].data.datapath_id
       /\ hist[i - 1].ev = "recv"
       /\ hist[i - 1].tag = "PacketIn"
       /\ hist[i - 1].k = hist[i].k
       /\ hist[i - 1].xid = hist[i].xid

\* C6 witness: packet_in was invoked for the PacketIn with xid 9 on the
\* connection of datapath DpidA
C6_Witness ==
    \E i \in CallsOf("packet_in") : hist[i].data = DpidA /\ hist[i].xid = <<0, 0, 0, 9>>

\* C7: every EchoRequest received, with xid x and payload p, is answered at
\* once by exactly one EchoReply: the bytes 01 03, the length 8 + len(p), x
\* and p; no other EchoReply is written.
C7_EchoReplyEchoes ==
    /\ \A i \in RecvsOf("EchoRequest") :
         /\ i < Len(hist)
         /\ hist[i + 1].ev = "write"
         /\ hist[i + 1].tag = "EchoReply"
         /\ hist[i + 1].xid = hist[i].xid
         /\ hist[i + 1].data = <<1, 3>> \o write_u16(8 + Len(hist[i].data))
                               \o hist[i].xid \o hist[i].data
         /\ (i + 1 < Len(hist) => hist[i + 2].ev # "write")
    /\ \A j \in WritesOf("EchoReply") :
         j > 1 /\ hist[j - 1].ev = "recv" /\ hist[j - 1].tag = "EchoRequest"

\* C7 witness: 01 02 00 0B 00 00 00 07 AA BB CC was received before any
\* FeaturesReply and answered by 01 03 00 0B 00 00 00 07 AA BB CC
C7_Witness ==
    /\ switch_id = None
    /\ \E i \in RecvsOf("EchoRequest") :
         /\ hist[i].xid = <<0, 0, 0, 7>>
         /\ hist[i].data = <<170, 187, 204>>
         /\ hist[i + 1].data = <<1, 3, 0, 11, 0, 0, 0, 7, 170, 187, 204>>

\* C8: the messages are processed in the order of their arrival (the reads
\* take the stream's bytes in order, and message k is handed over before
\* message k + 1), and whatever is written in response to message k is
\* written after message k was handed over and before any read for a later
\* message.
C8_ResponsesBeforeNextRead ==
    /\ \E s \in 1..Len(Scripts) : ReadBytes(Len(hist)) \o inp = Scripts[s]
    /\ \A i, j \in 1..Len(hist) : i < j => hist[i].k <= hist[j].k
    /\ \A i, j \in 1..Len(hist) :
         i < j /\ hist[i].ev = "recv" /\ hist[j].ev = "recv" => hist[i].k < hist[j].k
    /\ \A j \in 1..Len(hist) :
         hist[j].ev = "write" /\ hist[j].k >= 1 =>
           \E i \in 1..(j - 1) : hist[i].ev = "recv" /\ hist[i].k = hist[j].k
    /\ \A i, j \in 1..Len(hist) :
         hist[i].ev = "write" /\ hist[j].ev = "read" /\ hist[i].k < hist[j].k => i < j

\* C8 witness: the application has written a PacketOut for message k, and
\* message k + 1 has been read since
C8_Witness ==
    \E i, j \in 1..Len(hist) :
       /\ i < j
       /\ hist[i].ev = "write"
       /\ hist[i].tag = "PacketOut"
       /\ hist[j].ev = "read"
       /\ hist[j].k = hist[i].k + 1

(***************************************************************************)
(* Properties of the codec                                                 *)
(***************************************************************************)
ControllerOriginated ==
    {"Hello", "FeaturesReq", "EchoRequest", "EchoReply", "BarrierRequest", "FlowMod",
     "PacketOut"}

\* the actions of a FlowMod or PacketOut, <<>> for the other messages
ActionsOf(msg) ==
    CASE msg.tag = "FlowMod" -> msg.body.actions
      [] msg.tag = "PacketOut" -> msg.body.apply_actions
      [] OTHER -> <<>>

\* C9: for every message and xid, the length field of the header that
\* marshal writes is the length of the buffer marshal returns, 8 plus the
\* body bytes it emits.
C9_HeaderLengthIsBufferLength ==
    cpc = "marshalled" =>
      /\ Message_header_of(cxid, cmsg).length = Len(cwire)
      /\ OfpHeader_parse(cwire).length = Len(cwire)
      /\ Len(cwire) = OfpHeader_size + Len(Message_marshal_body(cmsg).bytes)

\* C10: for every message that can originate from the controller, with its
\* actions in controller-last order, and every xid, parsing the header and
\* the body of the marshalled buffer gives the xid and the message back.
C10_ParseInvertsMarshal ==
    (/\ cpc \in {"parsed", "parse_panicked"}
     /\ cmsg.tag \in ControllerOriginated
     /\ Action_move_controller_last(ActionsOf(cmsg)) = ActionsOf(cmsg)) =>
      /\ cpc = "parsed"
      /\ cparsed[1] = cxid
      /\ cparsed[2].tag = cmsg.tag
      /\ cparsed[2].body = cmsg.body

(***************************************************************************)
(* Properties of Pattern::marshal and Pattern::parse                       *)
(***************************************************************************)
\* C12: Pattern::parse(Pattern::marshal(p)) = p for every valid Pattern p:
\* parse does not panic on the 40 marshalled bytes and every field, present
\* or absent, comes back as it was given.
C12_PatternParseInvertsMarshal ==
    cpc \in {"pattern_parsed", "pattern_panicked"} =>
      /\ cpc = "pattern_parsed"
      /\ cparsed[1] = cmsg

\* the 32-bit wildcard word at the start of the marshalled pattern
WildcardWordOf(wire) ==
    wire[1] * 16777216 + wire[2] * 65536 + wire[3] * 256 + wire[4]

WordBit(word, n) == (word \div (2 ^ n)) % 2 = 1

WordField(word, lo) == (word \div (2 ^ lo)) % 64

\* what bits 8..13 (14..19) are to hold for the Option<Mask<u32>> x
NwMaskBits(x) ==
    IF x = <<>> THEN 32 ELSE IF x[1].mask = <<>> THEN 0 ELSE x[1].mask[1]

\* C13: the marshalled pattern is exactly 40 bytes, and in its wildcard word
\* bits 0..7, 20 and 21 are set iff in_port, dl_vlan, dl_src, dl_dst, dl_typ,
\* nw_proto, tp_src, tp_dst, dl_vlan_pcp and nw_tos are absent; bits 8..13
\* hold 32 for an absent nw_src, 0 for one without mask and m for mask
\* Some(m); bits 14..19 likewise for nw_dst.
C13_WildcardWord ==
    cpc = "pattern_marshalled" =>
      /\ Len(cwire) = 40
      /\ WordBit(WildcardWordOf(cwire), 0) = (cmsg.in_port = <<>>)
      /\ WordBit(WildcardWordOf(cwire), 1) = (cmsg.dl_vlan = <<>>)
      /\ WordBit(WildcardWordOf(cwire), 2) = (cmsg.dl_src = <<>>)
      /\ WordBit(WildcardWordOf(cwire), 3) = (cmsg.dl_dst = <<>>)
      /\ WordBit(WildcardWordOf(cwire), 4) = (cmsg.dl_typ = <<>>)
      /\ WordBit(WildcardWordOf(cwire), 5) = (cmsg.nw_proto = <<>>)
      /\ WordBit(WildcardWordOf(cwire), 6) = (cmsg.tp_src = <<>>)
      /\ WordBit(WildcardWordOf(cwire), 7) = (cmsg.tp_dst = <<>>)
      /\ WordBit(WildcardWordOf(cwire), 20) = (cmsg.dl_vlan_pcp = <<>>)
      /\ WordBit(WildcardWordOf(cwire), 21) = (cmsg.nw_tos = <<>>)
      /\ WordField(WildcardWordOf(cwire), 8) = NwMaskBits(cmsg.nw_src)
      /\ WordField(WildcardWordOf(cwire), 14) = NwMaskBits(cmsg.nw_dst)

\* C13 witness: a pattern with nw_src 10.0.0.0/8, no nw_dst, an in_port and
\* no dl_vlan has been marshalled: the word is 00 38 08 xx with bit 1 set
C13_Witness ==
    /\ cpc = "pattern_marshalled"
    /\ cmsg.nw_src = <<[value |-> <<10, 0, 0, 0>>, mask |-> <<8>>]>>
    /\ cmsg.nw_dst = <<>>
    /\ cmsg.in_port = <<3>>
    /\ cmsg.dl_vlan = <<>>
    /\ cwire[3] = 8
    /\ cwire[2] % 16 = 8

(***************************************************************************)
(* Properties of the marshalled actions and bodies                         *)
(***************************************************************************)
\* the bytes of the action list in the marshalled buffer of a FlowMod or a
\* PacketOut: what follows the pattern and the fixed FlowMod fields, or what
\* lies between the PacketOut prefix and the payload
EmittedActionBytes(wire, msg) ==
    IF msg.tag = "FlowMod" THEN Tail_from(wire, 8 + 40 + 24)
    ELSE Slice(wire, 8 + 8, Len(wire) - 16 - Len(msg.body.output_payload.data))

ToController(a) == a.act = "Output" /\ a.port.pp = "Controller"

\* f orders 1..n so that the positions of the actions that are not
\* Output(Controller(_)) come first, and is increasing inside either group
ControllerLastOrders(acts) ==
    {f \in [1..Len(acts) -> 1..Len(acts)] :
       /\ \A i, j \in 1..Len(acts) : i # j => f[i] # f[j]
       /\ \A i, j \in 1..Len(acts) :
            i < j => /\ ~(ToController(acts[f[i]]) /\ ~ToController(acts[f[j]]))
                     /\ (ToController(acts[f[i]]) = ToController(acts[f[j]]) => f[i] < f[j])}

\* C14: the actions of a marshalled FlowMod or PacketOut are emitted as a
\* permutation of the input in which every Output(Controller(_)) comes after
\* every other action and either group keeps its input order.
C14_ControllerLast ==
    (cpc = "marshalled" /\ cmsg.tag \in {"FlowMod", "PacketOut"}) =>
      \E f \in ControllerLastOrders(ActionsOf(cmsg)) :
         EmittedActionBytes(cwire, cmsg)
           = Action_marshal_sequence([i \in 1..Len(ActionsOf(cmsg)) |-> ActionsOf(cmsg)[f[i]]])

\* C14 witness: a PacketOut with [Output(Controller(128)), Output(PhysicalPort(1))]
\* has been marshalled, and the first action emitted is the one to port 1
C14_Witness ==
    /\ cpc = "marshalled"
    /\ cmsg.tag = "PacketOut"
    /\ cmsg.body.apply_actions = <<Output(Controller(128)), Output(PhysicalPort(1))>>
    /\ Slice(cwire, 16, Action_size_of(Output(PhysicalPort(1))))
         = Action_marshal(Output(PhysicalPort(1)))

\* C15: marshalling a FlowMod fails, and returns no buffer, exactly when its
\* actions contain Output(Table) at some position.
C15_OutputTableRejected ==
    (cpc \in {"marshalled", "panicked"} /\ cmsg.tag = "FlowMod") =>
      /\ (cpc = "panicked") =
           (\E i \in 1..Len(cmsg.body.actions) :
               cmsg.body.actions[i] = Output(PP("Table", 0)))
      /\ (cpc = "panicked" => cwire = <<>>)
      /\ (cpc = "marshalled" => cwire # <<>>)

\* C15 witness: marshalling has failed for a FlowMod whose Output(Table) is
\* not its first action
C15_Witness ==
    /\ cpc = "panicked"
    /\ cmsg.tag = "FlowMod"
    /\ Len(cmsg.body.actions) >= 2
    /\ cmsg.body.actions[1] # Output(PP("Table", 0))
    /\ cmsg.body.actions[2] = Output(PP("Table", 0))

\* C16: PacketOut::marshal writes -1 as the buffer id of NotBuffered and n
\* for Buffered(n, _), and for every PacketOut with n < 2^31 parsing the
\* marshalled buffer gives a payload of the same variant and buffer id.
C16_BufferIdRoundTrip ==
    (/\ cmsg.tag = "PacketOut"
     /\ cpc \in {"marshalled", "parsed", "parse_panicked"}
     /\ cmsg.body.output_payload.id[1] < 128 \/ cmsg.body.output_payload.kind = "NotBuffered") =>
      /\ Slice(cwire, 8, 4) = (IF cmsg.body.output_payload.kind = "NotBuffered"
                               THEN <<255, 255, 255, 255>>
                               ELSE cmsg.body.output_payload.id)
      /\ (cpc # "marshalled" =>
            /\ cpc = "parsed"
            /\ cparsed[2].tag = "PacketOut"
            /\ cparsed[2].body.output_payload.kind = cmsg.body.output_payload.kind
            /\ cparsed[2].body.output_payload.id = cmsg.body.output_payload.id)

\* C17: with xid 0, the FlowMod add_flow(10, pattern with only dl_src and
\* dl_dst present, [Output(PhysicalPort(2))]) marshals to a buffer that begins
\* 01 0E 00 50 00 00 00 00.
C17_FlowModHeaderBytes ==
    (/\ cpc = "marshalled"
     /\ cxid = <<0, 0, 0, 0>>
     /\ cmsg = Msg("FlowMod", Message_add_flow(10, SamplePatterns[2],
                                               <<Output(PhysicalPort(2))>>))) =>
      Slice(cwire, 0, 8) = <<1, 14, 0, 80, 0, 0, 0, 0>>

(***************************************************************************)
(* Properties of the codec on received buffers                             *)
(***************************************************************************)
\* the opcodes of FlowMod, FlowRemoved, PacketOut, Error, EchoRequest, EchoReply
ParsedAndEmitted == {14, 11, 13, 1, 2, 3}

\* C11: for every well-formed buffer b received with the opcode of FlowMod,
\* FlowRemoved, PacketOut, Error, EchoRequest or EchoReply, b parses, and
\* marshalling the message parsed from it with the same xid gives b again,
\* byte for byte.
C11_MarshalInvertsParse ==
    (/\ cpc \in {"wire_panicked", "remarshalled", "remarshal_panicked"}
     /\ cwire[2] \in ParsedAndEmitted) =>
      /\ cpc = "remarshalled"
      /\ cxid = Slice(cwire, 4, 4)
      /\ cparsed[3] = cwire

\* C18: PacketIn::parse returns a payload whose bytes are exactly the frame
\* carried, the body bytes after the 10-byte prefix (buffer id, total_len,
\* in_port, reason, pad); in_port and reason are those of the prefix, and
\* parse_payload on the payload takes dl_dst and dl_src from the first 12
\* bytes of the frame.
C18_PacketInPayloadIsFrame ==
    (cpc \in {"wire_parsed", "wire_panicked"} /\ cwire[2] = 10) =>
      /\ cpc = "wire_parsed"
      /\ cmsg.tag = "PacketIn"
      /\ cmsg.body.port = cwire[15] * 256 + cwire[16]
      /\ cmsg.body.reason = cwire[17]
      /\ cmsg.body.input_payload.data = Tail_from(cwire, 8 + 10)
      /\ parse_payload(cmsg.body.input_payload).ok
      /\ parse_payload(cmsg.body.input_payload).val.dl_dst = <<0, 0>> \o Slice(cwire, 18, 6)
      /\ parse_payload(cmsg.body.input_payload).val.dl_src = <<0, 0>> \o Slice(cwire, 24, 6)

(***************************************************************************)
(* Properties of the read loop                                             *)
(***************************************************************************)
\* the reads into a non-empty buffer that returned zero bytes
ZeroReads ==
    {i \in 1..Len(hist) : hist[i].ev = "read" /\ hist[i].tag \in {"eof", "body_eof"}}

\* C19: a read that returns zero bytes ends the loop: no callback is invoked
\* and nothing is read or written on the connection after it.
C19_ZeroReadCloses ==
    \A i \in ZeroReads :
       /\ pc # "loop"
       /\ \A j \in (i + 1)..Len(hist) : hist[j].ev \notin {"call", "read", "write"}

\* the offset in the stream s at which message k starts when every header
\* is 8 bytes and every body the length - 8 bytes after it
RECURSIVE FrameStart(_, _)
FrameStart(s, k) ==
    IF k <= 1 THEN 0
    ELSE FrameStart(s, k - 1) + Byte(s, FrameStart(s, k - 1) + 3) * 256
                              + Byte(s, FrameStart(s, k - 1) + 4)

FrameLength(s, k) == Byte(s, FrameStart(s, k) + 3) * 256 + Byte(s, FrameStart(s, k) + 4)

\* the header read at hist[i] took the 8 bytes at which its message starts
\* in the stream s, and the read after it the length - 8 bytes that follow
FramedAt(s, i) ==
    /\ hist[i].data = Slice(s, FrameStart(s, hist[i].k), 8)
    /\ i < Len(hist)
    /\ hist[i + 1].ev = "read"
    /\ hist[i + 1].k = hist[i].k
    /\ hist[i + 1].data
         = Slice(s, FrameStart(s, hist[i].k) + 8, FrameLength(s, hist[i].k) - 8)

\* C20: however the transport splits the stream into read results (no read
\* failing), every header handed to the parser is the 8 stream bytes at
\* which its message starts and every body the length - 8 bytes that follow,
\* so that the k-th message dispatched is the k-th message of the stream.
C20_FramingIndependentOfChunking ==
    errs = 0 =>
      \E s \in {ReadBytes(Len(hist)) \o inp} :
        /\ \A i \in 1..Len(hist) :
             (hist[i].ev = "read" /\ hist[i].tag = "header") => FramedAt(s, i)
        /\ \A j \in 1..Len(hist) :
             hist[j].ev = "recv" =>
               /\ hist[j].xid = Slice(s, FrameStart(s, hist[j].k) + 4, 4)
               /\ Byte(s, FrameStart(s, hist[j].k) + 2) < Len(MsgCodeNames) =>
                    Message_msg_code_of_message(Msg(hist[j].tag, <<>>))
                      = Byte(s, FrameStart(s, hist[j].k) + 2)

(***************************************************************************)
(* Properties of the dispatcher                                            *)
(***************************************************************************)
\* the type bytes of FeaturesReq, FlowRemoved, PortStatus, PacketOut, FlowMod,
\* BarrierRequest and BarrierReply
IgnoredTypes == {5, 11, 12, 13, 14, 18, 19}

\* the header reads that took the 8 bytes of a whole message of the stream s
\* with one of the type bytes in types, after switch_connected was called
RunningHeaders(s, types) ==
    {i \in 1..Len(hist) :
       /\ hist[i].ev = "read" /\ hist[i].tag = "header"
       /\ FramedAt(s, i)
       /\ Byte(s, FrameStart(s, hist[i].k) + 2) \in types
       /\ \E j \in CallsOf("switch_connected") : j < i}

\* C21: once the switch is connected, a well-formed FlowRemoved, PortStatus,
\* PacketOut, BarrierRequest, BarrierReply, FlowMod or FeaturesReq is
\* received and ignored: it is handed to the dispatcher, no callback is
\* invoked and nothing is written for it, switch_id stays what
\* switch_connected was given, and the loop goes on to the next read.
C21_IgnoredWhenRunning ==
    \E s \in {ReadBytes(Len(hist)) \o inp} :
      \A i \in RunningHeaders(s, IgnoredTypes) :
         /\ i + 2 <= Len(hist)
         /\ hist[i + 2].ev = "recv"
         /\ hist[i + 2].k = hist[i].k
         /\ \A j \in (i + 1)..Len(hist) :
              hist[j].k = hist[i].k => hist[j].ev \notin {"call", "write"}
         /\ hist[i].k = nmsg =>
              /\ pc = "loop"
              /\ \E j \in CallsOf("switch_connected") : switch_id = Some(hist[j].data)

\* the events of messages received while no Hello has been received yet
BeforeHello ==
    {i \in 1..Len(hist) :
       /\ hist[i].ev = "recv"
       /\ \A j \in RecvsOf("Hello") : i < j}

\* C22: while the peer's Hello has not been received, every message other
\* than Hello, EchoRequest and Error is ignored: no callback is invoked and
\* nothing is written for it and the loop goes on, so that switch_connected
\* is never called and switch_id never set before a Hello was received.
C22_HandshakeOrder ==
    /\ \A i \in BeforeHello :
         hist[i].tag \notin {"Hello", "EchoRequest", "Error"} =>
           /\ \A j \in (i + 1)..Len(hist) :
                hist[j].k = hist[i].k => hist[j].ev \notin {"call", "write"}
           /\ hist[i].k = nmsg => pc = "loop"
    /\ \A i \in CallsOf("switch_connected") : \E j \in RecvsOf("Hello") : j < i
    /\ IsSome(switch_id) => RecvsOf("Hello") # {}

\* the type bytes Message::parse has no arm for, FeaturesReq aside: Vendor,
\* GetConfigReq, GetConfigResp, SetConfig, PortMod, StatsReq, StatsResp,
\* QueueGetConfigReq, QueueGetConfigResp and every byte that is no MsgCode
UndecodedTypes == {4, 7, 8, 9, 15, 16, 17, 20, 21} \cup (Len(MsgCodeNames)..255)

\* the header reads that took the 8 bytes of a whole message of the stream s
\* with one of the type bytes in types
HeadersOf(s, types) ==
    {i \in 1..Len(hist) :
       /\ hist[i].ev = "read" /\ hist[i].tag = "header"
       /\ FramedAt(s, i)
       /\ Byte(s, FrameStart(s, hist[i].k) + 2) \in types}

\* C23: a message whose type byte is none of the decoded opcodes makes
\* Message::parse fail: no Message is handed to the dispatcher, no callback
\* is invoked and nothing is written for it, and the worker has stopped.
C23_UnexpectedOpcodeFails ==
    \E s \in {ReadBytes(Len(hist)) \o inp} :
      \A i \in HeadersOf(s, UndecodedTypes) :
         /\ Len(hist) = i + 1
         /\ pc = "panicked"

(***************************************************************************)
(* Action::parse_sequence on its own: cmsg is a list of actions, cwire the *)
(* window of their encodings one after the other, as OpenFlow 1.0 lays     *)
(* them out, and cparsed what parse_sequence makes of the window.          *)
(***************************************************************************)
MaxActions == 3

\* actions and their encodings
EncodedActions ==
    { [val |-> Output(PhysicalPort(2)), bytes |-> PeerActionOutput(2, 0)],
      [val |-> SetDlVlan(Some(5)), bytes |-> <<0, 1, 0, 8, 0, 5, 0, 0>>],
      [val |-> SetDlVlan(None), bytes |-> <<0, 3, 0, 8, 0, 0, 0, 0>>],
      [val |-> SetDlSrc(MacA), bytes |-> <<0, 4, 0, 16>> \o MacA \o Zeros(6)],
      [val |-> SetNwDst(<<10, 0, 0, 1>>), bytes |-> <<0, 7, 0, 8, 10, 0, 0, 1>>],
      [val |-> Enqueue(PhysicalPort(3), <<0, 0, 0, 9>>),
       bytes |-> <<0, 11, 0, 16, 0, 3>> \o Zeros(6) \o <<0, 0, 0, 9>>] }

\* the lists of n encoded actions, and the window of a list
RECURSIVE ActionLists(_)
ActionLists(n) ==
    IF n = 0 THEN {<<>>}
    ELSE {Append(l, a) : l \in ActionLists(n - 1), a \in EncodedActions}

RECURSIVE ActionWindow(_)
ActionWindow(l) == IF l = <<>> THEN <<>> ELSE l[1].bytes \o ActionWindow(Tail(l))

ActionInit ==
    /\ ConnIdle
    /\ cpc = "window"
    /\ \E n \in 0..MaxActions : \E l \in ActionLists(n) :
         /\ cmsg = [i \in 1..n |-> l[i].val]
         /\ cwire = ActionWindow(l)
    /\ cxid = Zeros(4)
    /\ cparsed = <<>>

\* Action::parse_sequence(&mut Cursor::new(cwire))
ActionParse ==
    /\ cpc = "window"
    /\ cpc' = IF Action_parse_sequence(cwire, 0).ok THEN "actions_parsed"
              ELSE "actions_panicked"
    /\ cparsed' = Action_parse_sequence(cwire, 0).val
    /\ UNCHANGED <<cmsg, cxid, cwire>>
    /\ UNCHANGED connVars

ActionSpec == ActionInit /\ [][ActionParse]_vars

\* C24: on a window that is n >= 0 well-formed encoded actions one after the
\* other, parse_sequence returns, and returns those n actions in order; on
\* the empty window it returns the empty list.
C24_ParseSequenceReturnsActions ==
    cpc # "window" => (cpc = "actions_parsed" /\ cparsed = cmsg)

(***************************************************************************)
(* Properties of Pattern::parse                                            *)
(***************************************************************************)
\* the Option<Mask<u32>> x is what the mask-bit count c and the 4 bytes addr
\* of its field decode to
NwDecoded(x, c, addr) ==
    IF c >= 32 THEN x = None
    ELSE IF c = 0 THEN x = Some(Mask(addr, None))
    ELSE x = Some(Mask(addr, Some(c)))

\* C25: Pattern::parse decodes nw_src from the count in bits 8..13 of the
\* wildcard word and nw_dst from the count in bits 14..19, each on its own:
\* a count of 32 or more gives an absent address, a count of 0 the address
\* of the field with mask None, and a count c in 1..31 the address with
\* mask Some(c).
C25_NwMasksIndependent ==
    cpc = "pattern_parsed" =>
      /\ NwDecoded(cparsed[1].nw_src, WordField(WildcardWordOf(cwire), 8),
                   Slice(cwire, 28, 4))
      /\ NwDecoded(cparsed[1].nw_dst, WordField(WildcardWordOf(cwire), 14),
                   Slice(cwire, 32, 4))

(***************************************************************************)
(* main.rs: the listener.  pc is the position of main, inp and buf are the *)
(* stream and the header buffer of the connection that handle_client is    *)
(* serving, and hist holds the events of all connections, each with the    *)
(* number of its connection.                                               *)
(***************************************************************************)
MaxConnections == 3

\* the byte streams of the switches that connect: an echo, a FeaturesReply,
\* a Vendor message, and a switch that closes at once
ServerStreams ==
    { PeerHello(1) \o PeerEchoRequest(2, <<7>>),
      PeerHello(1) \o PeerFeaturesReply(2, DpidA),
      PeerHello(1) \o PeerMsg(4, Xid(2), <<>>) \o PeerEchoRequest(3, <<>>),
      <<>> }

Accepted == {i \in 1..Len(hist) : hist[i].ev = "accept"}

\* main.rs implement_flow: a FlowMod that drops every packet
implement_flow(c) ==
    send_message(Xid(1000), Msg("FlowMod", Message_add_flow(0, Pattern_match_all, <<>>)), c)

\* main.rs process_message on connection c
main_process_message(xid, message, c) ==
    CASE message.tag = "EchoRequest" -> send_message(xid, EchoReply(message.body), c)
      [] message.tag = "Hello" -> send_message(Xid(10), FeaturesReq, c)
      [] message.tag = "FeaturesReply" -> implement_flow(c)
      [] OTHER -> [ok |-> TRUE, evs |-> <<>>]

ServerInit ==
    /\ pc = "accepting"
    /\ switch_id = None
    /\ known_hosts = <<>>
    /\ buf = Zeros(OfpHeader_size)
    /\ inp = <<>>
    /\ shorts = 0
    /\ errs = 0
    /\ nmsg = 0
    /\ hist = <<>>
    /\ CodecIdle

\* main: the next of listener.incoming().  Ok(stream): handle_client is
\* called in main's own thread and sends its Hello; Err: main panics.
main ==
    /\ pc = "accepting"
    /\ Cardinality(Accepted) < MaxConnections
    /\ \/ \E stream \in ServerStreams :
            /\ pc' = "serving"
            /\ inp' = stream
            /\ buf' = Zeros(OfpHeader_size)
            /\ hist' = hist \o <<Ev("accept", Cardinality(Accepted) + 1, Zeros(4), "", <<>>)>>
                            \o send_message(Zeros(4), Hello, Cardinality(Accepted) + 1).evs
       \/ /\ pc' = "main_panicked"
          /\ hist' = hist \o <<Ev("accept_err", Cardinality(Accepted) + 1, Zeros(4), "", <<>>)>>
          /\ UNCHANGED <<inp, buf>>
    /\ UNCHANGED <<switch_id, known_hosts, shorts, errs, nmsg>>
    /\ UNCHANGED codecVars

\* handle_client: one turn of its loop on the connection accepted last.  A
\* read of 0 bytes returns to main; a panic (header.length() - 8 below 0,
\* Message::parse, Message::marshal) unwinds through handle_client and main.
\* The arm of a failed read prints and changes nothing.
handle_client ==
    /\ pc = "serving"
    /\ IF inp = <<>>
       THEN /\ pc' = "accepting"
            /\ hist' = hist \o <<Ev("read", Cardinality(Accepted), Zeros(4), "eof", <<>>)>>
            /\ UNCHANGED <<buf, inp>>
       ELSE \E n \in {Min(OfpHeader_size, Len(inp))} :
            \E header \in {OfpHeader_parse(Overlay(buf, inp, n))} :
            \E message_len \in {header.length - OfpHeader_size} :
            \E code \in type_code(header) :
            \E parsed \in {IF message_len < 0 THEN [ok |-> FALSE]
                           ELSE Message_parse(header,
                                              Overlay(Zeros(message_len), Tail_from(inp, n),
                                                      Min(message_len, Len(inp) - n)),
                                              code)} :
            \E r \in {IF parsed.ok
                      THEN main_process_message(parsed.xid, parsed.msg, Cardinality(Accepted))
                      ELSE [ok |-> FALSE, evs |-> <<>>]} :
              /\ buf' = Overlay(buf, inp, n)
              /\ inp' = IF message_len < 0 THEN Tail_from(inp, n)
                        ELSE Tail_from(inp, n + Min(message_len, Len(inp) - n))
              /\ pc' = IF r.ok THEN "serving" ELSE "main_panicked"
              /\ hist' = hist
                         \o (IF parsed.ok
                             THEN <<Ev("recv", Cardinality(Accepted), parsed.xid,
                                       parsed.msg.tag, parsed.msg.body)>>
                             ELSE <<>>)
                         \o r.evs
                         \o (IF r.ok THEN <<>>
                             ELSE <<Ev("panic", Cardinality(Accepted), Zeros(4), "", <<>>)>>)
    /\ UNCHANGED <<switch_id, known_hosts, shorts, errs, nmsg>>
    /\ UNCHANGED codecVars

ServerSpec == ServerInit /\ [][main \/ handle_client]_vars

\* the connections whose handle_client has panicked
Faulted == {hist[i].k : i \in {j \in 1..Len(hist) : hist[j].ev = "panic"}}

\* C26: a fault while one connection is served ends only that connection:
\* main is still accepting or serving connections after it.
C26_ConnectionsIsolated ==
    Faulted # {} => pc \in {"accepting", "serving"}

(***************************************************************************)
(* Properties of the learning switch.  The frame of a PacketIn starts 10   *)
(* bytes into its body: after buffer_id, total_len, in_port, reason and a  *)
(* byte of padding.                                                        *)
(***************************************************************************)
\* every packet_in call of the history is for a whole message of the
\* stream s
PacketInsFramed(s) == \A i \in CallsOf("packet_in") : FramedAt(s, i - 3)

\* of the frame of message k of the stream s: its source and destination
\* address as the u64 of mac_of_bytes, and the in_port of the PacketIn
FrameSrc(s, k) == <<0, 0>> \o Slice(s, FrameStart(s, k) + 24, 6)
FrameDst(s, k) == <<0, 0>> \o Slice(s, FrameStart(s, k) + 18, 6)
InPortOf(s, k) == read_u16(s, FrameStart(s, k) + 14)

\* C27: known_hosts maps each address that was the dl_src of the frame of a
\* PacketIn to the in_port of the latest PacketIn with that dl_src and has
\* no other key, and a packet is routed with the table that already holds
\* its own source: it is routed by FlowMods iff its dl_dst is the dl_src of
\* a frame up to and including its own.
C27_KnownHostsLatestPort ==
    \E s \in {ReadBytes(Len(hist)) \o inp} :
      PacketInsFramed(s) =>
        /\ DOMAIN known_hosts = {FrameSrc(s, hist[i].k) : i \in CallsOf("packet_in")}
        /\ \A i \in CallsOf("packet_in") :
             (\A j \in CallsOf("packet_in") :
                 j > i => FrameSrc(s, hist[j].k) # FrameSrc(s, hist[i].k))
               => known_hosts[FrameSrc(s, hist[i].k)] = InPortOf(s, hist[i].k)
        /\ \A i \in CallsOf("packet_in") :
             (\E j \in WritesOf("FlowMod") : hist[j].k = hist[i].k)
               <=> (\E j \in CallsOf("packet_in") :
                      j <= i /\ FrameSrc(s, hist[j].k) = FrameDst(s, hist[i].k))

\* the bytes of the messages written for message k, in order, and their xids
WrittenFor(k) ==
    [j \in 1..Len(SelectSeq(hist, LAMBDA e : e.ev = "write" /\ e.k = k)) |->
       SelectSeq(hist, LAMBDA e : e.ev = "write" /\ e.k = k)[j].data]
XidsFor(k) == {hist[j].xid : j \in {n \in 1..Len(hist) : hist[n].ev = "write" /\ hist[n].k = k}}

\* the packet_in calls up to hist[i] whose frame came from the address mac
CallsFrom(s, mac, i) ==
    {j \in CallsOf("packet_in") : j <= i /\ FrameSrc(s, hist[j].k) = mac}

\* the in_port of the latest of them
PortLearnt(s, mac, i) ==
    InPortOf(s, hist[CHOOSE j \in CallsFrom(s, mac, i) :
                       \A n \in CallsFrom(s, mac, i) : n <= j].k)

\* the payload of the PacketIn that is message k of the stream s: its
\* buffer id and its frame
FramePayload(s, k) ==
    PayloadOf(BufIdOfWire(Slice(s, FrameStart(s, k) + 8, 4)),
              Slice(s, FrameStart(s, k) + 18, FrameLength(s, k) - 18))

\* Message::marshal(0, m)
Marshalled(m) == Message_marshal(Zeros(4), m).bytes

MatchMacs(src, dst) ==
    [Pattern_match_all EXCEPT !.dl_src = Some(MacField(src)), !.dl_dst = Some(MacField(dst))]

\* what is to be written for a packet from src to dst that came in at
\* in_port, when dst was learnt at port p
RoutedWrites(src, dst, p, in_port, payload) ==
    << Marshalled(Msg("FlowMod", Message_add_flow(10, MatchMacs(src, dst),
                                                  <<Output(PhysicalPort(p))>>))),
       Marshalled(Msg("FlowMod", Message_add_flow(10, MatchMacs(dst, src),
                                                  <<Output(PhysicalPort(in_port))>>))),
       Marshalled(Msg("PacketOut", [output_payload |-> payload, port_id |-> None,
                                    apply_actions |-> <<Output(PhysicalPort(p))>>])) >>

\* and when dst was not learnt
FloodWrites(payload) ==
    << Marshalled(Msg("PacketOut", [output_payload |-> payload, port_id |-> None,
                                    apply_actions |-> <<Output(PP("AllPorts", 0))>>])) >>

\* C28: for each PacketIn the learning switch writes, all with xid 0: when
\* the frame's dl_dst was learnt at port p, the FlowMod matching (dl_src =
\* src, dl_dst = dst) with Output(PhysicalPort(p)), then the FlowMod matching
\* (dl_src = dst, dl_dst = src) with Output(PhysicalPort(in_port)), then the
\* PacketOut of the frame to PhysicalPort(p); when dl_dst was not learnt,
\* one flooding PacketOut of the frame and no FlowMod.
C28_RoutingWrites ==
    \E s \in {ReadBytes(Len(hist)) \o inp} :
      PacketInsFramed(s) =>
        \A i \in CallsOf("packet_in") :
          pc # "panicked" =>
            /\ XidsFor(hist[i].k) = {Zeros(4)}
            /\ WrittenFor(hist[i].k)
                 = IF CallsFrom(s, FrameDst(s, hist[i].k), i) # {}
                   THEN RoutedWrites(FrameSrc(s, hist[i].k), FrameDst(s, hist[i].k),
                                     PortLearnt(s, FrameDst(s, hist[i].k), i),
                                     InPortOf(s, hist[i].k), FramePayload(s, hist[i].k))
                   ELSE FloodWrites(FramePayload(s, hist[i].k))

(***************************************************************************)
(* Packet::parse on its own: cwire is an Ethernet frame, cmsg says what    *)
(* the frame carries, and cparsed is what Packet::parse makes of it.       *)
(***************************************************************************)
FrameMacs == {MacA, MacB, <<1, 35, 69, 103, 137, 171>>, <<1, 2, 3, 3, 2, 1>>}

\* an IPv4 header without options, 10.0.0.1 to 10.0.0.2
IpHeader(proto, total_len) ==
    <<69, 0>> \o write_u16(total_len) \o <<0, 1, 0, 0, 64, proto, 0, 0>>
    \o <<10, 0, 0, 1, 10, 0, 0, 2>>

TcpHeader == <<0, 80, 4, 210, 0, 0, 0, 1, 0, 0, 0, 0, 80, 2, 1, 0, 0, 0, 0, 0>>
UdpHeader == <<0, 53, 0, 53, 0, 11, 0, 0>>
IcmpHeader == <<8, 0, 0, 0>>

\* what follows the 12 address bytes of a frame: tp is the transport the
\* frame carries whole ("Tcp", "Udp", "Icmp"), "Unparsable" for a layer
\* that cannot be decoded, and "none" for a frame that is not IPv4
FrameTails ==
    { [tp |-> "none", payload |-> <<>>, bytes |-> write_u16(2056) \o <<1, 2, 3>>],
      [tp |-> "none", payload |-> <<>>, bytes |-> write_u16(2056)],
      [tp |-> "none", payload |-> <<>>,
       bytes |-> write_u16(EthTypVLAN) \o <<32, 5>> \o write_u16(2056) \o <<1, 2>>],
      [tp |-> "none", payload |-> <<>>,
       bytes |-> write_u16(EthTypARP) \o <<0, 1, 8, 0, 6, 4, 0, 1>> \o MacA
                 \o <<10, 0, 0, 1>> \o Zeros(6) \o <<10, 0, 0, 2>>],
      [tp |-> "Tcp", payload |-> <<1, 2, 3>>,
       bytes |-> write_u16(EthTypIP) \o IpHeader(IpTCP, 43) \o TcpHeader \o <<1, 2, 3>>],
      [tp |-> "Udp", payload |-> <<1, 2, 3>>,
       bytes |-> write_u16(EthTypIP) \o IpHeader(IpUDP, 31) \o UdpHeader \o <<1, 2, 3>>],
      [tp |-> "Icmp", payload |-> <<1, 2, 3, 4>>,
       bytes |-> write_u16(EthTypIP) \o IpHeader(IpICMP, 28) \o IcmpHeader \o <<1, 2, 3, 4>>],
      [tp |-> "Tcp", payload |-> <<>>,
       bytes |-> write_u16(EthTypIP) \o IpHeader(IpTCP, 40) \o TcpHeader],
      [tp |-> "Unparsable", payload |-> <<>>,
       bytes |-> write_u16(EthTypIP) \o IpHeader(47, 24) \o <<1, 2, 3, 4>>],
      [tp |-> "Unparsable", payload |-> <<>>,
       bytes |-> write_u16(EthTypIP) \o IpHeader(IpTCP, 28) \o <<0, 80, 4, 210, 0, 0, 0, 1>>],
      [tp |-> "Unparsable", payload |-> <<>>,
       bytes |-> write_u16(EthTypIP) \o <<69, 0, 0, 20, 0, 1, 0, 0, 64, 6>>],
      [tp |-> "Unparsable", payload |-> <<>>,
       bytes |-> write_u16(EthTypIP) \o <<69, 0, 0, 20>>] }

PacketInit ==
    /\ ConnIdle
    /\ cpc = "frame"
    /\ \E dst \in FrameMacs, src \in FrameMacs, tail \in FrameTails :
         /\ cmsg = [tp |-> tail.tp, payload |-> tail.payload]
         /\ cwire = dst \o src \o tail.bytes
    /\ cxid = Zeros(4)
    /\ cparsed = <<>>

\* Packet::parse(&cwire)
PacketParse ==
    /\ cpc = "frame"
    /\ cpc' = IF Packet_parse(cwire).ok THEN "packet_parsed" ELSE "packet_panicked"
    /\ cparsed' = IF Packet_parse(cwire).ok THEN <<Packet_parse(cwire).val>> ELSE <<>>
    /\ UNCHANGED <<cmsg, cxid, cwire>>
    /\ UNCHANGED connVars

PacketSpec == PacketInit /\ [][PacketParse]_vars

\* C29: on a frame with a whole Ethernet header Packet::parse returns a
\* Packet whose dl_dst and dl_src are the first 12 bytes; for an IPv4 frame
\* that carries TCP, UDP or ICMP it holds that transport with the bytes after
\* the transport header as payload, and where an inner layer cannot be
\* decoded it holds Unparsable.
C29_PacketParseTotal ==
    cpc # "frame" =>
      /\ cpc = "packet_parsed"
      /\ cparsed[1].dl_dst = <<0, 0>> \o Slice(cwire, 0, 6)
      /\ cparsed[1].dl_src = <<0, 0>> \o Slice(cwire, 6, 6)
      /\ cmsg.tp \in {"Tcp", "Udp", "Icmp"} =>
           /\ cparsed[1].nw.kind = "Ip"
           /\ cparsed[1].nw.tp.kind = cmsg.tp
           /\ cparsed[1].nw.tp.payload = cmsg.payload
      /\ cmsg.tp = "Unparsable" =>
           \/ cparsed[1].nw.kind = "Unparsable"
           \/ cparsed[1].nw.kind = "Ip" /\ cparsed[1].nw.tp.kind = "Unparsable"

(***************************************************************************)
(* packet.rs: bytes_of_mac and mac_of_bytes on their own.  cwire is a      *)
(* 6-byte address a; cparsed holds in turn m = mac_of_bytes(a),            *)
(* bytes_of_mac(m) and mac_of_bytes(bytes_of_mac(m)).                      *)
(***************************************************************************)
\* byte i of the result is (addr >> (8 * i)) & 0xff: the lowest byte of the
\* u64 comes first
bytes_of_mac(addr) == <<addr[8], addr[7], addr[6], addr[5], addr[4], addr[3]>>

MacByteValues == {0, 1, 171}

MacInit ==
    /\ ConnIdle
    /\ cpc = "mac"
    /\ cmsg = Hello
    /\ cxid = Zeros(4)
    /\ cwire \in {<<a, b, c, d, e, f>> : a \in {0, 1}, b \in {0, 35}, c \in MacByteValues,
                                        d \in MacByteValues, e \in {0, 137}, f \in {1, 171}}
    /\ cparsed = <<>>

\* mac_of_bytes on the address, and on what bytes_of_mac has returned
MacOfBytes ==
    /\ cpc \in {"mac", "mac_bytes"}
    /\ cpc' = IF cpc = "mac" THEN "mac_u64" ELSE "mac_again"
    /\ cparsed' = Append(cparsed,
                         mac_of_bytes(IF cpc = "mac" THEN cwire ELSE cparsed[Len(cparsed)]))
    /\ UNCHANGED <<cmsg, cxid, cwire>>
    /\ UNCHANGED connVars

\* bytes_of_mac on the u64 that mac_of_bytes has returned
BytesOfMac ==
    /\ cpc = "mac_u64"
    /\ cpc' = "mac_bytes"
    /\ cparsed' = Append(cparsed, bytes_of_mac(cparsed[1]))
    /\ UNCHANGED <<cmsg, cxid, cwire>>
    /\ UNCHANGED connVars

MacSpec == MacInit /\ [][MacOfBytes \/ BytesOfMac]_vars

\* C30: bytes_of_mac(mac_of_bytes(a)) = a for every 6-byte address a, and
\* mac_of_bytes(bytes_of_mac(m)) = m for every u64 m below 2^48.
C30_MacConversionsInverse ==
    /\ cpc \in {"mac_bytes", "mac_again"} => cparsed[2] = cwire
    /\ cpc = "mac_again" => cparsed[3] = cparsed[1]

====
